---- MODULE Spec2Model ----
(***************************************************************************)
(* feedd: documentation ingestion and retrieval pipeline.                  *)
(*                                                                         *)
(* The repository holds three generations of the pipeline, told apart by   *)
(* the variable `variant`:                                                 *)
(*   "lancedb"        indexRepo + storage/lancedb.ts + OllamaEmbedder      *)
(*   "chroma_ollama"  indexSource + indexer/vectordb.ts + generateEmbeddings*)
(*   "chroma_default" indexSource + the Chroma server client, which embeds *)
(*                    inside collection.add / collection.query             *)
(***************************************************************************)
EXTENDS Integers, Sequences, FiniteSets, TLC

VARIABLES
    variant,    \* which generation of the pipeline runs
    store,      \* the vector store: collection name -> [exists, rows]
    faulty,     \* collections whose store calls raise a transient error
    \* ---- search_docs / searchCommand (one request at a time)
    spc,        \* position of the search handler
    sMode,      \* "mcp" (search_docs) or "cli" (searchCommand)
    sLimit,     \* the request's limit
    sSource,    \* the request's source filter, NoSource when absent
    sTables,    \* collections still to query in the aggregation loop
    gathered,   \* `results` / `allResults` as pushed, before the sort
    sFailed,    \* collections whose query threw during this request
    output,     \* the list handed back to the caller
    sErr,       \* TRUE when the handler answered with an error
    \* ---- the store adapters called directly
    lastOp,     \* the last adapter call: what it was given and what it gave
    \* ---- one ingestion run at a time (indexRepo / indexSource)
    pc,         \* the phase the run is in, or how the last run ended
    src,        \* the source (collection name) under ingestion
    run,        \* number of runs started so far
    nChunks,    \* chunks.length of this run, 0 before chunking
    nVec,       \* vectors computed so far in this run
    written,    \* chunks of this run handed to the store so far
    snapshot,   \* the store as it was when this run started
    failAt,     \* the phase in which this run threw or was interrupted
    prevCut,    \* the previous run was killed between delete and the end of the upsert
    lastGood,   \* the last run that returned: its number and its chunks.length
    status,     \* the status field of the source's record in the config
    provider,   \* the embedding provider as the run finds it
    \* ---- one embed call at a time
    epc,        \* position of the embed call
    eMode,      \* "batched" (OllamaEmbedder.embed) or "serial" (generateEmbeddings)
    texts,      \* the input list
    ei,         \* the loop index i: texts before it are embedded
    inflight,   \* positions of texts whose request is outstanding
    doneOrder,  \* positions of this batch's texts in completion order
    embeddings, \* the result list built so far
    reordered,  \* some batch completed in another order than it was issued
    \* ---- one CLI command at a time (add / sync / update / remove)
    sources,    \* the config: source id -> status, "none" when not registered
    cmd,        \* the command: name, source id, position, and what it found
    effects,    \* what the command has attempted outside the config so far
    \* ---- chunkMarkdownFile, one file at a time
    kpc,        \* "idle", or "done" once a file has been chunked
    doc,        \* the markdown body of the file, line by line
    fmH1,       \* frontmatter.h1 of the file, NoHeader when absent
    fileChunks, \* the chunks returned for the file
    \* ---- get_doc, one request at a time
    gpc,        \* "idle", "crawled" once the raw files are written, "done"
    rawFiles,   \* the files under data/raw in the order get_doc reads them
    reqUrl,     \* the url argument of the request
    docAnswer,  \* what get_doc answered
    \* ---- generateRepoId, for two sources added one after the other
    rpc,        \* "idle", "one" or "two": how many sources have been given an id
    repoA,      \* the first source: owner, repo and branch
    repoB,      \* the second source
    \* ---- updateClaudeMd, one call at a time
    mpc,        \* "idle", or "done" once updateClaudeMd has returned
    claudeMd,   \* CLAUDE.md before the call: whether it exists, and its text
    nListed,    \* the number of sources listSources returned
    newMd,      \* CLAUDE.md after the call
    \* ---- updateCommand: the ingestion parameters of the source
    upc,        \* "idle", or "done" once the parameters have been written
    stored,     \* the source's maxDepth and maxPages before the command
    options,    \* the --depth and --pages options as typed
    updated,    \* the source's maxDepth and maxPages after updateSource
    \* ---- get_doc(repo, branch, path): the file read by the server
    tpc,        \* "idle", or "done" once a get_doc request was answered
    docArgs,    \* the repo, branch and path arguments of the request
    fullPath,   \* the path handed to fs.readFile, normalised
    fileAnswer  \* the answer: the file's content, or an error

searchVars == <<spc, sMode, sLimit, sSource, sTables, gathered, sFailed, output, sErr>>
storeVars == <<variant, store, faulty>>
opVars == <<lastOp>>
indexVars == <<pc, src, run, nChunks, nVec, written, snapshot, failAt, prevCut, lastGood, status, provider>>
embedVars == <<epc, eMode, texts, ei, inflight, doneOrder, embeddings, reordered>>
cmdVars == <<sources, cmd, effects>>
chunkVars == <<kpc, doc, fmH1, fileChunks>>
docVars == <<gpc, rawFiles, reqUrl, docAnswer>>
repoVars == <<rpc, repoA, repoB>>
mdVars == <<mpc, claudeMd, nListed, newMd>>
updVars == <<upc, stored, options, updated>>
fileVars == <<tpc, docArgs, fullPath, fileAnswer>>
vars == <<storeVars, searchVars, opVars, indexVars, embedVars, cmdVars, chunkVars, docVars, repoVars, mdVars, updVars, fileVars>>

\* what the actions of one part of the program leave alone
notSearch == <<storeVars, opVars, indexVars, embedVars, cmdVars, chunkVars, docVars, repoVars, mdVars, updVars, fileVars>>
notOp == <<searchVars, indexVars, embedVars, cmdVars, chunkVars, docVars, repoVars, mdVars, updVars, fileVars>>
notIndex == <<variant, faulty, searchVars, opVars, embedVars, cmdVars, chunkVars, docVars, repoVars, mdVars, updVars, fileVars>>
notEmbed == <<storeVars, searchVars, opVars, indexVars, cmdVars, chunkVars, docVars, repoVars, mdVars, updVars, fileVars>>
notChunk == <<storeVars, searchVars, opVars, indexVars, embedVars, cmdVars, docVars, repoVars, mdVars, updVars, fileVars>>
notCmd == <<variant, faulty, searchVars, opVars, indexVars, embedVars, chunkVars, docVars, repoVars, mdVars, updVars, fileVars>>
notDoc == <<storeVars, searchVars, opVars, indexVars, embedVars, cmdVars, chunkVars, repoVars, mdVars, updVars, fileVars>>
notRepo == <<storeVars, searchVars, opVars, indexVars, embedVars, cmdVars, chunkVars, docVars, mdVars, updVars, fileVars>>
notMd == <<storeVars, searchVars, opVars, indexVars, embedVars, cmdVars, chunkVars, docVars, repoVars, updVars, fileVars>>
notUpd == <<storeVars, searchVars, opVars, indexVars, embedVars, cmdVars, chunkVars, docVars, repoVars, mdVars, fileVars>>
notFile == <<storeVars, searchVars, opVars, indexVars, embedVars, cmdVars, chunkVars, docVars, repoVars, mdVars, updVars>>

-----------------------------------------------------------------------------
(* Bounds of the model *)

MaxRows == 2
MaxDist == 1
MaxLimit == 2
MaxRuns == 3
MaxChunks == 11
MaxTexts == 6

Variants == {"lancedb", "chroma_ollama", "chroma_default"}

\* listTables / listCollections enumerate the collections in this order
CollOrder == <<"libA", "libB">>
Colls == {CollOrder[i] : i \in 1..Len(CollOrder)}
NoSource == "-"

Min(a, b) == IF a < b THEN a ELSE b

-----------------------------------------------------------------------------
(* Error messages: a message is the sequence of its words, and            *)
(* String.prototype.includes is the contiguous-subsequence test.          *)

NoError == <<>>

Includes(msg, needle) ==
    \E i \in 0..(Len(msg) - Len(needle)) :
        \A j \in 1..Len(needle) : msg[i + j] = needle[j]

\* What the store client says when the named collection is missing: the
\* phrasings each adapter file tests for.
NotFoundMessages(v) ==
    IF v = "lancedb"
    THEN { <<"table", "was", "not", "found">>, <<"table", "does", "not", "exist">> }
    ELSE IF v = "chroma_ollama"
    THEN { <<"collection", "does", "not", "exist">> }
    ELSE { <<"collection", "does", "not", "exist">>,
           <<"collection", "not", "found">>,
           <<"The", "requested", "resource", "could", "not", "be", "found">> }

TransientError == <<"connection", "reset">>

\* The error a store call on collection c raises, NoError when it goes through.
\* e is the phrasing the client uses should the collection be missing.
StoreCall(st, hl, c, e) ==
    IF c \in hl THEN TransientError
    ELSE IF ~st[c].exists THEN e
    ELSE NoError

Absent == [exists |-> FALSE, rows |-> <<>>]

-----------------------------------------------------------------------------
(* Ranking *)

\* Array.prototype.sort((a, b) => a.distance - b.distance): a stable sort,
\* an element goes after every element that does not compare greater.
RECURSIVE InsertBeforeTies(_, _)
InsertBeforeTies(r, s) ==
    IF s = <<>> THEN <<r>>
    ELSE IF r.dist <= Head(s).dist THEN <<r>> \o s
    ELSE <<Head(s)>> \o InsertBeforeTies(r, Tail(s))

RECURSIVE InsertByDistance(_, _)
InsertByDistance(r, s) ==
    IF s = <<>> THEN <<r>>
    ELSE IF r.dist < Head(s).dist THEN <<r>> \o s
    ELSE <<Head(s)>> \o InsertByDistance(r, Tail(s))

RECURSIVE SortByDistance(_)
SortByDistance(s) ==
    IF s = <<>> THEN <<>>
    ELSE InsertByDistance(s[Len(s)], SortByDistance(SubSeq(s, 1, Len(s) - 1)))

\* Array.prototype.slice(0, k)
Slice(s, k) == SubSeq(s, 1, Min(k, Len(s)))

\* table.search(q).limit(k).toArray() / collection.query({nResults: k}):
\* the k nearest rows of one collection, nearest first.
Nearest(rows, k) == Slice(SortByDistance(rows), k)

\* results.sort(...); results = results.slice(0, limit)
MergeNoSlice(res, k) == SortByDistance(res)
MergeSliceFirst(res, k) == SortByDistance(Slice(res, k))
MergeResults(res, k) == Slice(SortByDistance(res), k)

-----------------------------------------------------------------------------
(* Store adapters: queries.  Each returns [ok, rows]; ok = FALSE is a throw. *)

Thrown == [ok |-> FALSE, rows |-> <<>>]
Returned(rows) == [ok |-> TRUE, rows |-> rows]

\* storage/lancedb.ts search
search(st, hl, c, k, e) ==
    LET err == StoreCall(st, hl, c, e) IN
    IF err = NoError THEN Returned(Nearest(st[c].rows, k))
    ELSE IF Includes(err, <<"not", "found">>) \/ Includes(err, <<"does", "not", "exist">>)
         THEN Returned(<<>>)
         ELSE Thrown

\* indexer/vectordb.ts searchInCollection (query by embedding); a row's
\* distance is `distances[0][i] || 0`, which leaves a number as it is
searchInCollection(st, hl, c, k, e) ==
    LET err == StoreCall(st, hl, c, e) IN
    IF err = NoError THEN Returned(Nearest(st[c].rows, k))
    ELSE IF Includes(err, <<"does", "not", "exist">>) THEN Returned(<<>>)
         ELSE Thrown

\* Chroma server client searchInCollectionByText (query by text)
searchInCollectionByText(st, hl, c, k, e) ==
    LET err == StoreCall(st, hl, c, e) IN
    IF err = NoError THEN Returned(Nearest(st[c].rows, k))
    ELSE IF Includes(err, <<"does", "not", "exist">>) THEN Returned(<<>>)
         ELSE Thrown

\* the query adapter each generation's search surface calls
Query(v, st, hl, c, k, e) ==
    IF v = "lancedb" THEN search(st, hl, c, k, e)
    ELSE IF v = "chroma_ollama" THEN searchInCollection(st, hl, c, k, e)
    ELSE searchInCollectionByText(st, hl, c, k, e)

\* listTables / listCollections: the names of the collections present
RECURSIVE ListFrom(_, _)
ListFrom(st, i) ==
    IF i > Len(CollOrder) THEN <<>>
    ELSE (IF st[CollOrder[i]].exists THEN <<CollOrder[i]>> ELSE <<>>) \o ListFrom(st, i + 1)

listTables(st) == ListFrom(st, 1)

\* the search loop swallows a throwing collection (try/catch around search)
SwallowsQueryError(v, mode) == mode = "cli" \/ v = "lancedb"

-----------------------------------------------------------------------------
(* Store adapters: deletion.  Each returns [ok, st]; ok = FALSE is a throw. *)

\* String.prototype.toLowerCase, word by word
LowerWord(w) ==
    IF w = "The" THEN "the"
    ELSE IF w = "Collection" THEN "collection"
    ELSE w
ToLowerCase(msg) == [i \in 1..Len(msg) |-> LowerWord(msg[i])]

\* connection.dropTable / client.deleteCollection
DropKeepsRows(st, c) == st
Drop(st, c) == [st EXCEPT ![c] = Absent]

\* storage/lancedb.ts deleteTable
deleteTableRethrows(st, hl, c, e) ==
    LET err == StoreCall(st, hl, c, e) IN
    IF err = NoError THEN [ok |-> TRUE, st |-> Drop(st, c)]
    ELSE [ok |-> FALSE, st |-> st]

deleteTable(st, hl, c, e) ==
    LET err == StoreCall(st, hl, c, e) IN
    IF err = NoError THEN [ok |-> TRUE, st |-> Drop(st, c)]
    ELSE IF ~Includes(err, <<"not", "found">>) /\ ~Includes(err, <<"does", "not", "exist">>)
         THEN [ok |-> FALSE, st |-> st]
         ELSE [ok |-> TRUE, st |-> st]

\* indexer/vectordb.ts deleteCollection
deleteCollection(st, hl, c, e) ==
    LET err == StoreCall(st, hl, c, e) IN
    IF err = NoError THEN [ok |-> TRUE, st |-> Drop(st, c)]
    ELSE IF ~Includes(err, <<"does", "not", "exist">>)
         THEN [ok |-> FALSE, st |-> st]
         ELSE [ok |-> TRUE, st |-> st]

\* Chroma server client deleteCollection
deleteCollectionServer(st, hl, c, e) ==
    LET err == StoreCall(st, hl, c, e)
        errorMessage == ToLowerCase(err)
    IN  IF err = NoError THEN [ok |-> TRUE, st |-> Drop(st, c)]
        ELSE IF /\ ~Includes(errorMessage, <<"does", "not", "exist">>)
                /\ ~Includes(errorMessage, <<"not", "found">>)
                /\ ~Includes(errorMessage, <<"could", "not", "be", "found">>)
             THEN [ok |-> FALSE, st |-> st]
             ELSE [ok |-> TRUE, st |-> st]

\* the delete adapter each generation's pipeline calls
Delete(v, st, hl, c, e) ==
    IF v = "lancedb" THEN deleteTable(st, hl, c, e)
    ELSE IF v = "chroma_ollama" THEN deleteCollection(st, hl, c, e)
    ELSE deleteCollectionServer(st, hl, c, e)

-----------------------------------------------------------------------------
(* The adapters called directly, one call at a time *)

OpIdle ==
    lastOp = [op |-> "none", coll |-> NoSource, ok |-> TRUE, rows |-> <<>>,
              before |-> store, nChunks |-> 0, nEmbeddings |-> 0]

\* a query of one collection
OpQuery ==
    /\ \E c \in Colls, k \in 1..MaxLimit, e \in NotFoundMessages(variant) :
        LET r == Query(variant, store, faulty, c, k, e) IN
        lastOp' = [op |-> "query", coll |-> c, ok |-> r.ok, rows |-> r.rows,
                   before |-> store, nChunks |-> 0, nEmbeddings |-> 0]
    /\ UNCHANGED <<storeVars, notOp>>

\* a deletion of one collection
OpDelete ==
    /\ \E c \in Colls, e \in NotFoundMessages(variant) :
        LET r == Delete(variant, store, faulty, c, e) IN
        /\ store' = r.st
        /\ lastOp' = [op |-> "delete", coll |-> c, ok |-> r.ok, rows |-> <<>>,
                      before |-> store, nChunks |-> 0, nEmbeddings |-> 0]
    /\ UNCHANGED <<variant, faulty, notOp>>

\* no ingestion run has been started
IndexIdle ==
    /\ pc = "idle" /\ run = 0 /\ nChunks = 0 /\ nVec = 0 /\ written = 0
    /\ snapshot = store /\ failAt = "-"
    /\ prevCut = FALSE
    /\ lastGood = [run |-> 0, n |-> 0]
    /\ status = "pending"
    /\ provider = "up"

\* no embed call has been made
EmbedIdle ==
    /\ epc = "idle" /\ eMode = "batched" /\ texts = <<>> /\ ei = 0
    /\ inflight = {} /\ doneOrder = <<>> /\ embeddings = <<>>
    /\ reordered = FALSE

NoHeader == ""

\* no file has been chunked
ChunkIdle ==
    /\ kpc = "idle" /\ doc = <<>> /\ fmH1 = NoHeader
    /\ fileChunks = <<>>

\* an absent url argument
NoUrl == <<>>

\* no get_doc request has been made
DocIdle ==
    /\ gpc = "idle" /\ rawFiles = <<>> /\ reqUrl = NoUrl
    /\ docAnswer = [isError |-> FALSE, text |-> <<>>]

\* a source that has not been named
NoRepo == [owner |-> <<>>, repo |-> <<>>, branch |-> <<>>]

\* no source has been given an id
RepoIdle == rpc = "idle" /\ repoA = NoRepo /\ repoB = NoRepo

\* CLAUDE.md is not there (readFile fails with ENOENT)
NoFile == [exists |-> FALSE, text |-> <<>>]

\* updateClaudeMd has not been called
MdIdle == mpc = "idle" /\ claudeMd = NoFile /\ nListed = 0 /\ newMd = NoFile

\* a value that is undefined, and a number
Undefined == [defined |-> FALSE, n |-> 0]
Num(n) == [defined |-> TRUE, n |-> n]

\* no update command has written parameters
UpdIdle ==
    /\ upc = "idle"
    /\ stored = [maxDepth |-> Undefined, maxPages |-> Undefined]
    /\ options = [depth |-> Undefined, pages |-> Undefined]
    /\ updated = [maxDepth |-> Undefined, maxPages |-> Undefined]

\* the answer of a get_doc request that failed
DocError == [ok |-> FALSE, text |-> <<>>]

\* no get_doc(repo, branch, path) request was answered
FileIdle ==
    /\ tpc = "idle"
    /\ docArgs = [repo |-> <<>>, branch |-> "", path |-> <<>>]
    /\ fullPath = <<>>
    /\ fileAnswer = DocError

\* no command has been run
CmdIdle ==
    /\ sources = [c \in Colls |-> "none"]
    /\ cmd = [name |-> "none", id |-> NoSource, pos |-> "idle", before |-> store,
              wasRegistered |-> FALSE]
    /\ effects = {}

-----------------------------------------------------------------------------
(* search_docs (MCP) and searchCommand (CLI) *)

SearchIdle ==
    /\ spc = "idle" /\ sMode = "mcp" /\ sLimit = 1 /\ sSource = NoSource
    /\ sTables = <<>> /\ gathered = <<>> /\ sFailed = {} /\ output = <<>>
    /\ sErr = FALSE

\* search_docs with a source: one query, returned as the store answered it
SearchDocsOneSource ==
    /\ spc = "idle"
    /\ \E c \in Colls, k \in 1..MaxLimit, e \in NotFoundMessages(variant) :
        LET r == Query(variant, store, faulty, c, k, e) IN
        /\ sMode' = "mcp" /\ sLimit' = k /\ sSource' = c
        /\ sTables' = <<>>
        /\ gathered' = r.rows
        /\ sFailed' = IF r.ok THEN {} ELSE {c}
        /\ output' = r.rows
        /\ sErr' = ~r.ok
        /\ spc' = "done"
    /\ UNCHANGED notSearch

\* search_docs without a source: list the collections, then loop
SearchDocsAll ==
    /\ spc = "idle"
    /\ \E k \in 1..MaxLimit :
        /\ sMode' = "mcp" /\ sLimit' = k /\ sSource' = NoSource
        /\ sTables' = listTables(store)
    /\ gathered' = <<>> /\ sFailed' = {} /\ output' = <<>> /\ sErr' = FALSE
    /\ spc' = "loop"
    /\ UNCHANGED notSearch

\* searchCommand: --repo gives a one-element list, otherwise listTables();
\* an empty list ends the command with nothing found
searchCommand ==
    /\ spc = "idle" /\ variant = "lancedb"
    /\ \E k \in 1..MaxLimit, s \in Colls \cup {NoSource} :
        /\ sMode' = "cli" /\ sLimit' = k /\ sSource' = s
        /\ sTables' = IF s = NoSource THEN listTables(store) ELSE <<s>>
        /\ spc' = IF s = NoSource /\ listTables(store) = <<>> THEN "done" ELSE "loop"
    /\ gathered' = <<>> /\ sFailed' = {} /\ output' = <<>> /\ sErr' = FALSE
    /\ UNCHANGED notSearch

\* one turn of the loop: query the next collection and push its answer
SearchNextCollection ==
    /\ spc = "loop" /\ sTables # <<>>
    /\ \E e \in NotFoundMessages(variant) :
        LET c == Head(sTables)
            r == Query(variant, store, faulty, c, sLimit, e)
        IN  IF r.ok
            THEN /\ gathered' = gathered \o r.rows
                 /\ sTables' = Tail(sTables)
                 /\ UNCHANGED <<sFailed, sErr, spc, output>>
            ELSE IF SwallowsQueryError(variant, sMode)
            THEN /\ sFailed' = sFailed \cup {c}
                 /\ sTables' = Tail(sTables)
                 /\ UNCHANGED <<gathered, sErr, spc, output>>
            ELSE /\ sFailed' = sFailed \cup {c}
                 /\ sErr' = TRUE
                 /\ spc' = "done"
                 /\ UNCHANGED <<gathered, sTables, output>>
    /\ UNCHANGED <<notSearch, sMode, sLimit, sSource>>

\* after the loop: sort by distance and truncate to the limit
SearchMerge ==
    /\ spc = "loop" /\ sTables = <<>>
    /\ output' = MergeResults(gathered, sLimit)
    /\ spc' = "done"
    /\ UNCHANGED <<notSearch, sMode, sLimit, sSource, sTables, gathered, sFailed, sErr>>

\* the next request
SearchAgain ==
    /\ spc = "done"
    /\ spc' = "idle" /\ sMode' = "mcp" /\ sLimit' = 1 /\ sSource' = NoSource
    /\ sTables' = <<>> /\ gathered' = <<>> /\ sFailed' = {} /\ output' = <<>>
    /\ sErr' = FALSE
    /\ UNCHANGED notSearch

\* the rows a collection may hold: row i has its own distance to the query
MkRows(c, ds) == [i \in 1..Len(ds) |-> [coll |-> c, run |-> 1, idx |-> i, dist |-> ds[i]]]
DistSeqs == UNION {[1..n -> 0..MaxDist] : n \in 0..MaxRows}
Collections(c) == {Absent} \cup {[exists |-> TRUE, rows |-> MkRows(c, ds)] : ds \in DistSeqs}

InitSearch ==
    /\ variant \in Variants
    /\ store \in {st \in [Colls -> UNION {Collections(c) : c \in Colls}] :
                    \A c \in Colls : st[c] \in Collections(c)}
    /\ faulty \in SUBSET Colls
    /\ SearchIdle
    /\ OpIdle
    /\ src = CollOrder[1]
    /\ IndexIdle
    /\ EmbedIdle
    /\ CmdIdle
    /\ ChunkIdle
    /\ DocIdle
    /\ RepoIdle
    /\ MdIdle
    /\ UpdIdle
    /\ FileIdle

NextSearch ==
    \/ SearchDocsOneSource
    \/ SearchDocsAll
    \/ searchCommand
    \/ SearchNextCollection
    \/ SearchMerge
    \/ SearchAgain

SpecSearch == InitSearch /\ [][NextSearch]_vars

InitStore == InitSearch

NextStore ==
    \/ OpQuery
    \/ OpDelete

SpecStore == InitStore /\ [][NextStore]_vars

-----------------------------------------------------------------------------
(* Store adapters: upsert.  Each returns [ok, st]; ok = FALSE is a throw.  *)

\* chunk i of run r of source c as a stored row
ChunkRow(c, r, i) == [coll |-> c, run |-> r, idx |-> i, dist |-> 0]
ChunkRowsFromOne(c, r, from, to) == [i \in 1..(to - from + 1) |-> ChunkRow(c, r, i)]
ChunkRows(c, r, from, to) == [i \in 1..(to - from + 1) |-> ChunkRow(c, r, from + i - 1)]

\* the values Date.now() may have when an id is made
Timestamps == {0, 1}

\* the id a row was stored under, made at time t: `${repoId}-${i}` in
\* indexRepo, `chunk_${Date.now()}_${idx}` and `chunk_${timestamp}_${i + idx}`
\* in the two addChunksToCollection
ChunkId(v, row, t) ==
    IF v = "lancedb" THEN <<row.coll, row.idx>> ELSE <<"chunk", t, row.idx>>

\* another source's collection, indexed earlier
Preloaded(c) == [exists |-> TRUE, rows |-> <<ChunkRow(c, 0, 1)>>]

AppendRows(st, c, rows) == [st EXCEPT ![c] = [exists |-> TRUE, rows |-> st[c].rows \o rows]]

\* storage/lancedb.ts addDocuments: table.add on an existing table,
\* createTable when openTable says the table is missing
addDocuments(st, hl, c, documents, e) ==
    LET err == StoreCall(st, hl, c, e) IN
    IF err = NoError THEN [ok |-> TRUE, st |-> AppendRows(st, c, documents)]
    ELSE IF Includes(err, <<"not", "found">>) \/ Includes(err, <<"does", "not", "exist">>)
         THEN [ok |-> TRUE, st |-> [st EXCEPT ![c] = [exists |-> TRUE, rows |-> documents]]]
         ELSE [ok |-> FALSE, st |-> st]

\* getOrCreateCollection (both Chroma generations)
getOrCreateCollection(st, hl, c) ==
    IF c \in hl THEN [ok |-> FALSE, st |-> st]
    ELSE IF st[c].exists THEN [ok |-> TRUE, st |-> st]
    ELSE [ok |-> TRUE, st |-> [st EXCEPT ![c] = [exists |-> TRUE, rows |-> <<>>]]]

\* indexer/vectordb.ts addChunksToCollection: one collection.add for all chunks
addChunksToCollection(st, hl, c, chunks, nEmbeddings) ==
    IF Len(chunks) # nEmbeddings THEN [ok |-> FALSE, st |-> st]
    ELSE IF Len(chunks) = 0 THEN [ok |-> TRUE, st |-> st]
    ELSE IF c \in hl THEN [ok |-> FALSE, st |-> st]
    ELSE [ok |-> TRUE, st |-> AppendRows(st, c, chunks)]

\* Chroma server client addChunksToCollection: one turn of its batch loop,
\* collection.add of the chunks i+1 .. i+BATCH_SIZE
\* (for (let i = 0; i < chunks.length; i += BATCH_SIZE))
BATCH_SIZE == 10
MoreBatchesFullOnly(i, n) == i + BATCH_SIZE <= n
MoreBatches(i, n) == i < n
addChunksBatch(st, hl, c, batchChunks) ==
    IF c \in hl THEN [ok |-> FALSE, st |-> st]
    ELSE [ok |-> TRUE, st |-> AppendRows(st, c, batchChunks)]

\* Chroma server client addChunksToCollection, the whole call: nothing on an
\* empty list, otherwise the batch loop from index i, which stops at the
\* first batch that throws and keeps the batches already added
RECURSIVE addChunksFrom(_, _, _, _, _)
addChunksFrom(st, hl, c, chunks, i) ==
    IF ~MoreBatches(i, Len(chunks)) THEN [ok |-> TRUE, st |-> st]
    ELSE LET r == addChunksBatch(st, hl, c,
                     SubSeq(chunks, i + 1, Min(i + BATCH_SIZE, Len(chunks))))
         IN  IF r.ok THEN addChunksFrom(r.st, hl, c, chunks, i + BATCH_SIZE)
             ELSE r

addChunksToCollectionByText(st, hl, c, chunks) ==
    IF Len(chunks) = 0 THEN [ok |-> TRUE, st |-> st]
    ELSE addChunksFrom(st, hl, c, chunks, 0)

\* the upsert adapter of each generation.  addDocuments takes documents that
\* carry their vector; the server client takes chunks only and Chroma embeds
\* them; addChunksToCollection (indexer/vectordb.ts) takes both lists.
Upsert(v, st, hl, c, chunks, nEmbeddings, e) ==
    IF v = "lancedb" THEN addDocuments(st, hl, c, chunks, e)
    ELSE IF v = "chroma_ollama" THEN addChunksToCollection(st, hl, c, chunks, nEmbeddings)
    ELSE addChunksToCollectionByText(st, hl, c, chunks)

\* whether the adapter is handed a vector list besides the chunk list
TakesVectors(v) == v = "chroma_ollama"

MaxUpsert == 2
MaxStored == 3

\* an upsert into one collection; the Chroma adapters are handed a
\* collection obtained from getOrCreateCollection, so it exists
OpUpsert ==
    /\ \E c \in Colls, n \in 0..MaxUpsert, m \in 0..MaxUpsert,
          e \in NotFoundMessages(variant) :
        /\ variant # "lancedb" => store[c].exists
        /\ ~TakesVectors(variant) => m = n
        /\ Len(store[c].rows) + n <= MaxStored
        /\ LET r == Upsert(variant, store, faulty, c, ChunkRows(c, 2, 1, n), m, e) IN
           /\ store' = r.st
           /\ lastOp' = [op |-> "upsert", coll |-> c, ok |-> r.ok, rows |-> <<>>,
                         before |-> store, nChunks |-> n, nEmbeddings |-> m]
    /\ UNCHANGED <<variant, faulty, notOp>>

\* a collection as an earlier call left it: missing, created and still
\* empty, or holding a chunk
InitUpsert ==
    /\ variant \in Variants
    /\ store \in [Colls -> {Absent, [exists |-> TRUE, rows |-> <<>>]}
                           \cup {Preloaded(c) : c \in Colls}]
    /\ \A c \in Colls : \A i \in 1..Len(store[c].rows) : store[c].rows[i].coll = c
    /\ faulty \in SUBSET Colls
    /\ SearchIdle
    /\ OpIdle
    /\ src = CollOrder[1]
    /\ IndexIdle
    /\ EmbedIdle
    /\ CmdIdle
    /\ ChunkIdle
    /\ DocIdle
    /\ RepoIdle
    /\ MdIdle
    /\ UpdIdle
    /\ FileIdle

NextUpsert ==
    \/ OpUpsert
    \/ OpDelete

SpecUpsert == InitUpsert /\ [][NextUpsert]_vars

-----------------------------------------------------------------------------
(* Ingestion: indexRepo (lancedb) and the two indexSource generations *)

\* the embedding provider: answering with the model present, not answering,
\* or answering without the model
Providers == {"up", "down", "nomodel"}

\* the pipeline calls the provider itself (Chroma embeds otherwise)
UsesProvider(v) == v # "chroma_default"

\* the order of the awaited steps of one run
PipelineDeleteBeforeEmbed(v) ==
    IF v = "lancedb"
    THEN <<"clone", "find", "parse", "chunk", "health", "delete", "embed", "add">>
    ELSE IF v = "chroma_ollama"
    THEN <<"health", "model", "chunk", "delete", "embed", "create", "add">>
    ELSE <<"chunk", "delete", "create", "add">>

PipelineNoDelete(v) ==
    IF v = "lancedb"
    THEN <<"clone", "find", "parse", "chunk", "health", "embed", "add">>
    ELSE IF v = "chroma_ollama"
    THEN <<"health", "model", "chunk", "embed", "create", "add">>
    ELSE <<"chunk", "create", "add">>

Pipeline(v) ==
    IF v = "lancedb"
    THEN <<"clone", "find", "parse", "chunk", "health", "embed", "delete", "add">>
    ELSE IF v = "chroma_ollama"
    THEN <<"health", "model", "chunk", "embed", "delete", "create", "add">>
    ELSE <<"chunk", "delete", "create", "add">>

Phases == {"clone", "find", "parse", "chunk", "health", "model", "embed",
           "delete", "create", "add"}

NextPhase(v, p) ==
    LET s == Pipeline(v)
        i == CHOOSE j \in 1..Len(s) : s[j] = p
    IN  IF i = Len(s) THEN "done" ELSE s[i + 1]

\* texts embedded per awaited turn: Promise.all over a batch of 5 in
\* OllamaEmbedder.embed, one text at a time in generateEmbeddings
batchSize == 5
EmbedStride(v) == IF v = "lancedb" THEN batchSize ELSE 1

\* the phases in which the old collection is gone and the new one not yet whole
WritePhases == {"create", "add"}

\* the run ended (threw or was killed) after the old collection was deleted
\* and before every chunk of the run was upserted
CutShort ==
    /\ pc \in {"failed", "crashed"}
    /\ failAt \in WritePhases
    /\ written < nChunks

\* the step throws: the run ends with an error
Throw ==
    /\ pc' = "failed" /\ failAt' = pc
    /\ UNCHANGED <<src, run, nChunks, nVec, written, snapshot, prevCut, lastGood, status, provider>>

\* the step returns: on to the next one
Proceed ==
    /\ pc' = NextPhase(variant, pc)
    /\ UNCHANGED <<src, run, nChunks, nVec, written, snapshot, failAt, prevCut, lastGood, status, provider>>

\* a command starts a run for the source: updateSource(id, {status:
\* 'indexing'}), then indexRepo / indexSource
StartRun ==
    /\ pc \in {"idle", "done", "failed", "crashed"}
    /\ run < MaxRuns
    /\ run' = run + 1
    /\ pc' = Head(Pipeline(variant))
    /\ nChunks' = 0 /\ nVec' = 0 /\ written' = 0
    /\ snapshot' = store
    /\ failAt' = "-"
    /\ prevCut' = (CutShort /\ pc = "crashed")
    /\ status' = "indexing"
    /\ \E p \in Providers :
        /\ ~UsesProvider(variant) => p = "up"
        /\ provider' = p
    /\ UNCHANGED <<src, lastGood, store, notIndex>>

\* cloneOrPull
CloneOrPull ==
    /\ pc = "clone"
    /\ (Proceed \/ Throw)
    /\ UNCHANGED <<store, notIndex>>

\* findMarkdownFiles: no file is an error
FindMarkdownFiles ==
    /\ pc = "find"
    /\ \E nFiles \in 0..1 : IF nFiles = 0 THEN Throw ELSE Proceed
    /\ UNCHANGED <<store, notIndex>>

\* parseMarkdownFiles
ParseMarkdownFiles ==
    /\ pc = "parse"
    /\ Proceed
    /\ UNCHANGED <<store, notIndex>>

\* if (chunks.length === 0) throw
NoContentNever(n) == FALSE
NoContent(n) == n = 0

\* chunkParsedMarkdown / chunkMarkdownFiles: no chunk is an error
ChunkDocuments ==
    /\ pc = "chunk"
    /\ \E n \in 0..MaxChunks :
        IF NoContent(n) THEN Throw
        ELSE /\ nChunks' = n
             /\ pc' = NextPhase(variant, pc)
             /\ UNCHANGED <<src, run, nVec, written, snapshot, failAt, prevCut, lastGood, status, provider>>
    /\ UNCHANGED <<store, notIndex>>

\* OllamaEmbedder.checkHealth: GET /api/tags answers and lists the model
checkHealth(p) == p = "up"

\* checkOllamaAvailable: ollama.list() answers
checkOllamaAvailable(p) == p # "down"

\* embedder.ensureAvailable (indexRepo) / checkOllamaAvailable (indexSource):
\* one request, an error when the answer is false
CheckHealth ==
    /\ pc = "health"
    /\ IF variant = "lancedb"
       THEN (IF checkHealth(provider) THEN Proceed ELSE Throw)
       ELSE (IF checkOllamaAvailable(provider) THEN Proceed ELSE Throw)
    /\ UNCHANGED <<store, notIndex>>

\* ensureModelAvailable: a model that is not listed is pulled, and the step
\* throws only when the listing or the pull fails
EnsureModelAvailable ==
    /\ pc = "model"
    /\ IF provider = "up" THEN Proceed
       ELSE \E pullSucceeds \in BOOLEAN : IF pullSucceeds THEN Proceed ELSE Throw
    /\ UNCHANGED <<store, notIndex>>

\* one awaited turn of embedder.embed / generateEmbeddings
EmbedChunks ==
    /\ pc = "embed"
    /\ \/ /\ nVec' = Min(nVec + EmbedStride(variant), nChunks)
          /\ pc' = IF nVec' = nChunks THEN NextPhase(variant, pc) ELSE pc
          /\ UNCHANGED <<src, run, nChunks, written, snapshot, failAt, prevCut, lastGood, status, provider>>
       \/ Throw
    /\ UNCHANGED <<store, notIndex>>

\* deleteTable(repoId) / deleteCollection(source.id)
DeleteOld ==
    /\ pc = "delete"
    /\ \E fault \in BOOLEAN, e \in NotFoundMessages(variant) :
        LET r == Delete(variant, store, IF fault THEN {src} ELSE {}, src, e) IN
        IF r.ok THEN store' = r.st /\ Proceed
        ELSE store' = store /\ Throw
    /\ UNCHANGED notIndex

\* getOrCreateCollection(source.id)
CreateCollection ==
    /\ pc = "create"
    /\ \E fault \in BOOLEAN :
        LET r == getOrCreateCollection(store, IF fault THEN {src} ELSE {}, src) IN
        IF r.ok THEN store' = r.st /\ Proceed
        ELSE store' = store /\ Throw
    /\ UNCHANGED notIndex

\* indexRepo: addDocuments(repoId, documents), all documents in one call
AddDocuments ==
    /\ pc = "add" /\ variant = "lancedb"
    /\ \E fault \in BOOLEAN, e \in NotFoundMessages(variant) :
        LET r == addDocuments(store, IF fault THEN {src} ELSE {}, src,
                              ChunkRows(src, run, 1, nChunks), e)
        IN  IF r.ok
            THEN /\ store' = r.st
                 /\ written' = nChunks
                 /\ pc' = "done"
                 /\ lastGood' = [run |-> run, n |-> nChunks]
                 /\ UNCHANGED <<src, run, nChunks, nVec, snapshot, failAt, prevCut, status, provider>>
            ELSE store' = store /\ Throw
    /\ UNCHANGED notIndex

\* indexSource (Ollama): addChunksToCollection(collection, chunks, embeddings)
AddChunks ==
    /\ pc = "add" /\ variant = "chroma_ollama"
    /\ \E fault \in BOOLEAN :
        LET r == addChunksToCollection(store, IF fault THEN {src} ELSE {}, src,
                                       ChunkRows(src, run, 1, nChunks), nVec)
        IN  IF r.ok
            THEN /\ store' = r.st
                 /\ written' = nChunks
                 /\ pc' = "done"
                 /\ lastGood' = [run |-> run, n |-> nChunks]
                 /\ UNCHANGED <<src, run, nChunks, nVec, snapshot, failAt, prevCut, status, provider>>
            ELSE store' = store /\ Throw
    /\ UNCHANGED notIndex

\* indexSource (default embeddings): one turn of the batch loop of
\* addChunksToCollection(collection, chunks); `written` is its index i
AddChunksBatch ==
    /\ pc = "add" /\ variant = "chroma_default"
    /\ IF MoreBatches(written, nChunks)
       THEN \E fault \in BOOLEAN :
            LET r == addChunksBatch(store, IF fault THEN {src} ELSE {}, src,
                        ChunkRows(src, run, written + 1, Min(written + BATCH_SIZE, nChunks)))
            IN  IF r.ok
                THEN /\ store' = r.st
                     /\ written' = written + BATCH_SIZE
                     /\ UNCHANGED <<pc, src, run, nChunks, nVec, snapshot, failAt, prevCut, lastGood, status, provider>>
                ELSE store' = store /\ Throw
       ELSE /\ pc' = "done"
            /\ lastGood' = [run |-> run, n |-> nChunks]
            /\ UNCHANGED <<store, src, run, nChunks, nVec, written, snapshot, failAt, prevCut, status, provider>>
    /\ UNCHANGED notIndex

\* status 'ready' written whether the run returned or threw
MarkReadyAlways ==
    /\ pc \in {"done", "failed"} /\ status = "indexing"
    /\ status' = "ready"
    /\ UNCHANGED <<pc, src, run, nChunks, nVec, written, snapshot, failAt, prevCut, lastGood, provider>>
    /\ UNCHANGED <<store, notIndex>>

\* the run returned: the command writes status 'ready' to the config
MarkReady ==
    /\ pc = "done" /\ status = "indexing"
    /\ status' = "ready"
    /\ UNCHANGED <<pc, src, run, nChunks, nVec, written, snapshot, failAt, prevCut, lastGood, provider>>
    /\ UNCHANGED <<store, notIndex>>

\* the run threw: the catch block of the crawler commands writes status
\* 'error'; the repository commands print the message and exit
MarksError(v) == v # "lancedb"

MarkError ==
    /\ pc = "failed" /\ status = "indexing" /\ MarksError(variant)
    /\ status' = "error"
    /\ UNCHANGED <<pc, src, run, nChunks, nVec, written, snapshot, failAt, prevCut, lastGood, provider>>
    /\ UNCHANGED <<store, notIndex>>

\* the process is killed while a step is awaited
Interrupt ==
    /\ pc \in Phases
    /\ pc' = "crashed" /\ failAt' = pc
    /\ UNCHANGED <<src, run, nChunks, nVec, written, snapshot, prevCut, lastGood, status, provider>>
    /\ UNCHANGED <<store, notIndex>>

InitIndex ==
    /\ variant \in Variants
    /\ src \in Colls
    /\ store = [c \in Colls |-> IF c = src THEN Absent ELSE Preloaded(c)]
    /\ faulty = {}
    /\ SearchIdle
    /\ OpIdle
    /\ IndexIdle
    /\ EmbedIdle
    /\ CmdIdle
    /\ ChunkIdle
    /\ DocIdle
    /\ RepoIdle
    /\ MdIdle
    /\ UpdIdle
    /\ FileIdle

NextIndex ==
    \/ StartRun
    \/ CloneOrPull
    \/ FindMarkdownFiles
    \/ ParseMarkdownFiles
    \/ ChunkDocuments
    \/ CheckHealth
    \/ EnsureModelAvailable
    \/ EmbedChunks
    \/ DeleteOld
    \/ CreateCollection
    \/ AddDocuments
    \/ AddChunks
    \/ AddChunksBatch
    \/ MarkReady
    \/ MarkError
    \/ Interrupt

SpecIndex == InitIndex /\ [][NextIndex]_vars

-----------------------------------------------------------------------------
(* The CLI commands over the config (feedd.config.json) and the store.     *)
(* add, update and the crawler remove are the commands of the two Chroma   *)
(* generations; sync and the repository remove those of the LanceDB one.   *)

Statuses == {"pending", "crawling", "indexing", "ready", "error"}

\* config.ts getSource: the record of that id, if any
getSource(srcs, id) == srcs[id] # "none"

\* config.ts addSource: if (config.sources.find(s => s.id === id)) throw
DuplicateNever(srcs, id) == FALSE
Duplicate(srcs, id) == srcs[id] # "none"

\* config.ts updateSource: Object.assign(source, {status}); throws when the
\* id is not registered
updateSource(srcs, id, st) ==
    IF srcs[id] = "none" THEN [ok |-> FALSE, srcs |-> srcs]
    ELSE [ok |-> TRUE, srcs |-> [srcs EXCEPT ![id] = st]]

\* config.ts removeSource
removeSource(srcs, id) ==
    IF srcs[id] = "none" THEN [ok |-> FALSE, srcs |-> srcs]
    ELSE [ok |-> TRUE, srcs |-> [srcs EXCEPT ![id] = "none"]]

\* the commands of each generation that start from a config test found in
\* the sources (the repository add calls an addSource of three arguments)
Commands(v) == IF v = "lancedb" THEN {"sync", "remove"} ELSE {"add", "update", "remove"}

\* indexRepo / indexSource as one call of a command: n is chunks.length,
\* healthy the answer of the provider checks, hd and ha the collections on
\* which the deletion and the writes meet a store error.  Gives what the
\* call attempted besides its result.
Ingest(v, st, id, n, healthy, hd, ha, e) ==
    LET clone == IF v = "lancedb" THEN {"fetch"} ELSE {} IN
    IF NoContent(n) \/ (UsesProvider(v) /\ ~healthy)
    THEN [ok |-> FALSE, st |-> st, did |-> clone]
    ELSE LET embed == IF UsesProvider(v) THEN {"embed"} ELSE {}
             d == Delete(v, st, hd, id, e)
         IN  IF ~d.ok THEN [ok |-> FALSE, st |-> st, did |-> clone \cup embed \cup {"delete"}]
             ELSE LET c == IF v = "lancedb" THEN d ELSE getOrCreateCollection(d.st, ha, id)
                      u == IF c.ok
                           THEN Upsert(v, c.st, ha, id, ChunkRows(id, 1, 1, n), n, e)
                           ELSE c
                  IN  [ok |-> u.ok, st |-> u.st,
                       did |-> clone \cup embed \cup {"delete", "write"}]

Faults(id) == {{}, {id}}

\* a command is typed
CmdStart ==
    /\ cmd.pos \in {"idle", "ok", "error"}
    /\ \E name \in Commands(variant), id \in Colls :
        cmd' = [name |-> name, id |-> id, pos |-> "check", before |-> store,
                wasRegistered |-> getSource(sources, id)]
    /\ effects' = {}
    /\ UNCHANGED <<sources, store, notCmd>>

\* addCommand: addSource; a duplicate id throws, and the catch block writes
\* status 'error' to the record it finds under that id
AddSource ==
    /\ cmd.pos = "check" /\ cmd.name = "add"
    /\ IF Duplicate(sources, cmd.id)
       THEN /\ sources' = updateSource(sources, cmd.id, "error").srcs
            /\ cmd' = [cmd EXCEPT !.pos = "error"]
       ELSE /\ sources' = [sources EXCEPT ![cmd.id] = "pending"]
            /\ cmd' = [cmd EXCEPT !.pos = "fetch"]
    /\ UNCHANGED <<effects, store, notCmd>>

\* syncCommand / updateCommand / removeCommand: getSource, exit when missing
GetSource ==
    /\ cmd.pos = "check" /\ cmd.name \in {"sync", "update", "remove"}
    /\ cmd' = [cmd EXCEPT !.pos =
                  IF ~getSource(sources, cmd.id) THEN "error"
                  ELSE IF cmd.name = "sync" THEN "index" ELSE "rm"]
    /\ UNCHANGED <<sources, effects, store, notCmd>>

\* fs.rm of the source's files (updateCommand, removeCommand)
RmFiles ==
    /\ cmd.pos = "rm"
    /\ effects' = effects \cup {"rm"}
    /\ cmd' = [cmd EXCEPT !.pos = IF cmd.name = "update" THEN "fetch" ELSE "unregister"]
    /\ UNCHANGED <<sources, store, notCmd>>

\* status 'crawling', then crawl(source); a throw is caught and the status
\* set to 'error'
Crawl ==
    /\ cmd.pos = "fetch"
    /\ effects' = effects \cup {"fetch"}
    /\ \E crawled \in BOOLEAN :
        IF crawled
        THEN /\ sources' = updateSource(sources, cmd.id, "crawling").srcs
             /\ cmd' = [cmd EXCEPT !.pos = "index"]
        ELSE /\ sources' = updateSource(sources, cmd.id, "error").srcs
             /\ cmd' = [cmd EXCEPT !.pos = "error"]
    /\ UNCHANGED <<store, notCmd>>

\* status 'indexing', then indexRepo / indexSource
IndexSource ==
    /\ cmd.pos = "index"
    /\ \E n \in 0..MaxUpsert, healthy \in BOOLEAN, hd \in Faults(cmd.id),
          ha \in Faults(cmd.id), e \in NotFoundMessages(variant) :
        LET r == Ingest(variant, store, cmd.id, n, healthy, hd, ha, e) IN
        /\ store' = r.st
        /\ effects' = effects \cup r.did
        /\ sources' = updateSource(sources, cmd.id,
                         IF ~r.ok /\ MarksError(variant) THEN "error" ELSE "indexing").srcs
        /\ cmd' = [cmd EXCEPT !.pos = IF r.ok THEN "mark" ELSE "error"]
    /\ UNCHANGED notCmd

\* status 'ready'
MarkSourceReady ==
    /\ cmd.pos = "mark"
    /\ sources' = updateSource(sources, cmd.id, "ready").srcs
    /\ cmd' = [cmd EXCEPT !.pos = "ok"]
    /\ UNCHANGED <<effects, store, notCmd>>

\* removeCommand: removeSource(id)
RemoveSource ==
    /\ cmd.pos = "unregister"
    /\ LET r == removeSource(sources, cmd.id) IN
       /\ sources' = r.srcs
       /\ cmd' = [cmd EXCEPT !.pos = IF r.ok THEN "drop" ELSE "error"]
    /\ UNCHANGED <<effects, store, notCmd>>

\* removeCommand: try { await deleteTable(repoId) } catch { }, then success
RemoveCollection ==
    /\ cmd.pos = "drop"
    /\ \E hl \in Faults(cmd.id), e \in NotFoundMessages(variant) :
        store' = Delete(variant, store, hl, cmd.id, e).st
    /\ effects' = effects \cup {"delete"}
    /\ cmd' = [cmd EXCEPT !.pos = "ok"]
    /\ UNCHANGED <<sources, notCmd>>

\* a config and a store left by earlier commands: each source is either not
\* registered, or registered and indexed
InitCmd ==
    /\ variant \in Variants
    /\ faulty = {}
    /\ \E reg \in SUBSET Colls :
        /\ sources = [c \in Colls |-> IF c \in reg THEN "ready" ELSE "none"]
        /\ store = [c \in Colls |-> IF c \in reg THEN Preloaded(c) ELSE Absent]
    /\ cmd = [name |-> "none", id |-> NoSource, pos |-> "idle", before |-> store,
              wasRegistered |-> FALSE]
    /\ effects = {}
    /\ SearchIdle
    /\ OpIdle
    /\ src = CollOrder[1]
    /\ IndexIdle
    /\ EmbedIdle
    /\ ChunkIdle
    /\ DocIdle
    /\ RepoIdle
    /\ MdIdle
    /\ UpdIdle
    /\ FileIdle

NextCmd ==
    \/ CmdStart
    \/ AddSource
    \/ GetSource
    \/ RmFiles
    \/ Crawl
    \/ IndexSource
    \/ MarkSourceReady
    \/ RemoveSource
    \/ RemoveCollection

SpecCmd == InitCmd /\ [][NextCmd]_vars

-----------------------------------------------------------------------------
(* Chunking one markdown file.  A line is a header line (it starts with    *)
(* '# ', '## ' or '### ') or any other line, of which only the length is   *)
(* kept; lines other than blank ones have no white space at their ends.    *)

H(level, t) == [kind |-> level, title |-> t, len |-> 0]
T(n) == [kind |-> "text", title |-> NoHeader, len |-> n]

\* String.prototype.length of the titles in use
TitleLen(t) ==
    IF t = "Title" \/ t = "Usage" \/ t = "Front" THEN 5
    ELSE IF t = "Caveats" THEN 7
    ELSE 0

Hashes(kind) == IF kind = "h1" THEN 1 ELSE IF kind = "h2" THEN 2 ELSE 3

\* the length of a line as written in the file
LineLen(l) == IF l.kind = "text" THEN l.len ELSE Hashes(l.kind) + 1 + TitleLen(l.title)

RECURSIVE SumLen(_, _)
SumLen(lines, ps) ==
    IF ps = <<>> THEN 0 ELSE LineLen(lines[Head(ps)]) + SumLen(lines, Tail(ps))

\* lines.join('\n').length for the lines at positions ps
JoinedLength(lines, ps) == IF ps = <<>> THEN 0 ELSE SumLen(lines, ps) + Len(ps) - 1

\* String.prototype.trim on the join of consecutive lines: the positions
\* from the first line that is not blank to the last one
Trim(lines, ps) ==
    LET nb == {i \in 1..Len(ps) : LineLen(lines[ps[i]]) > 0} IN
    IF nb = {} THEN <<>>
    ELSE LET lo == CHOOSE i \in nb : \A j \in nb : i <= j
             hi == CHOOSE i \in nb : \A j \in nb : i >= j
         IN  SubSeq(ps, lo, hi)

\* flushSection: push the lines gathered so far as a section, if any
flushSection(lines, st) ==
    IF Len(st.currentContent) > 0
    THEN [st EXCEPT !.sections = Append(@, [content |-> Trim(lines, st.currentContent),
                                            h1 |-> st.currentH1, h2 |-> st.currentH2,
                                            h3 |-> st.currentH3]),
                    !.currentContent = <<>>]
    ELSE st

\* what meeting a header line of a level does to the tracked headers
OnH1KeepsDeeper(st, t) == [st EXCEPT !.currentH1 = t]
OnH1(st, t) == [st EXCEPT !.currentH1 = t, !.currentH2 = NoHeader, !.currentH3 = NoHeader]
OnH2(st, t) == [st EXCEPT !.currentH2 = t, !.currentH3 = NoHeader]
OnH3(st, t) == [st EXCEPT !.currentH3 = t]

\* splitBySections: the walk over the lines from position i
RECURSIVE WalkLines(_, _, _)
WalkLines(lines, i, st) ==
    IF i > Len(lines) THEN flushSection(lines, st).sections
    ELSE LET l == lines[i] IN
         IF l.kind = "h1" THEN WalkLines(lines, i + 1, OnH1(flushSection(lines, st), l.title))
         ELSE IF l.kind = "h2" THEN WalkLines(lines, i + 1, OnH2(flushSection(lines, st), l.title))
         ELSE IF l.kind = "h3" THEN WalkLines(lines, i + 1, OnH3(flushSection(lines, st), l.title))
         ELSE WalkLines(lines, i + 1, [st EXCEPT !.currentContent = Append(@, i)])

splitBySections(lines) ==
    WalkLines(lines, 1, [currentH1 |-> NoHeader, currentH2 |-> NoHeader,
                         currentH3 |-> NoHeader, currentContent |-> <<>>,
                         sections |-> <<>>])

\* if (section.content.trim().length < 50) continue
MinContentLength == 50
TooShortNever(n) == FALSE
TooShort(n) == n < MinContentLength

\* a || b on strings
Or(a, b) == IF a # NoHeader THEN a ELSE b

\* chunkMarkdownFile, header walk: one chunk per section that is long enough
RECURSIVE ChunksOfSections(_, _, _)
ChunksOfSections(lines, fh1, sections) ==
    IF sections = <<>> THEN <<>>
    ELSE LET section == Head(sections)
             rest == ChunksOfSections(lines, fh1, Tail(sections))
         IN  IF TooShort(JoinedLength(lines, section.content)) THEN rest
             ELSE <<[content |-> section.content,
                     length |-> JoinedLength(lines, section.content),
                     h1 |-> Or(fh1, section.h1), h2 |-> section.h2, h3 |-> section.h3]>>
                  \o rest

chunkMarkdownFileBySections(lines, fh1) ==
    ChunksOfSections(lines, fh1, splitBySections(lines))

\* chunkMarkdownFile, text splitter: the frontmatter headers, a blank line
\* and the body go to textSplitter.createDocuments, and every document it
\* returns becomes a chunk.  For a text within chunkSize that is the text
\* itself, trimmed, as one document, and no document for an empty text.
chunkMarkdownFileBySplitter(lines, fh1) ==
    LET all == [i \in 1..Len(lines) |-> i]
        body == Trim(lines, all)
        length == IF body = <<>> THEN (IF fh1 # NoHeader THEN TitleLen(fh1) ELSE 0)
                  ELSE (IF fh1 # NoHeader
                        THEN TitleLen(fh1) + 2 + JoinedLength(lines, SubSeq(all, 1, body[Len(body)]))
                        ELSE JoinedLength(lines, body))
    IN  IF length = 0 THEN <<>>
        ELSE <<[content |-> body, length |-> length,
                h1 |-> fh1, h2 |-> NoHeader, h3 |-> NoHeader]>>

\* the chunker of each generation: the header walk in the Ollama one, the
\* text splitter in the default-embeddings one
ChunkerOf(v) == IF v = "chroma_ollama" THEN "sections" ELSE "splitter"

chunkMarkdownFile(v, lines, fh1) ==
    IF ChunkerOf(v) = "sections" THEN chunkMarkdownFileBySections(lines, fh1)
    ELSE chunkMarkdownFileBySplitter(lines, fh1)

MaxLines == 5

\* the lines a file is made of
TextLens == {0, 24, 50}
LineAlphabet ==
    {H("h1", "Title"), H("h2", "Usage"), H("h2", "Caveats"), H("h3", "Usage")}
        \cup {T(n) : n \in TextLens}

\* "# Title\n\n## Usage\n\nDo X. Do Y.\n\n## Caveats\n\nWatch Z."
ExampleDoc ==
    <<H("h1", "Title"), T(0), H("h2", "Usage"), T(0), T(11), T(0),
      H("h2", "Caveats"), T(0), T(8)>>

Docs == {ExampleDoc} \cup UNION {[1..n -> LineAlphabet] : n \in 0..MaxLines}

\* the h1 the crawler writes to the frontmatter, if the file has one
FrontmatterH1s == {NoHeader, "Front"}

\* chunkMarkdownFile: one file is read and chunked
ChunkMarkdownFile ==
    /\ kpc = "idle"
    /\ \E d \in Docs, f \in FrontmatterH1s :
        /\ doc' = d
        /\ fmH1' = f
        /\ fileChunks' = chunkMarkdownFile(variant, d, f)
    /\ kpc' = "done"
    /\ UNCHANGED notChunk

InitChunk ==
    /\ variant \in {"chroma_ollama", "chroma_default"}
    /\ store = [c \in Colls |-> Absent]
    /\ faulty = {}
    /\ src = CollOrder[1]
    /\ SearchIdle
    /\ OpIdle
    /\ IndexIdle
    /\ EmbedIdle
    /\ CmdIdle
    /\ ChunkIdle
    /\ DocIdle
    /\ RepoIdle
    /\ MdIdle
    /\ UpdIdle
    /\ FileIdle

NextChunk == ChunkMarkdownFile

SpecChunk == InitChunk /\ [][NextChunk]_vars

-----------------------------------------------------------------------------
(* get_doc(url) of the MCP server.  A text is a sequence of tokens: a URL is *)
(* a sequence of letters, one token each, and "url: " is one token.  A file  *)
(* is the frontmatter the crawler wrote followed by the page's markdown.     *)

MaxFiles == 2
MaxUrlLen == 2

UrlLetters == {"a", "b"}
Urls == UNION {[1..n -> UrlLetters] : n \in 1..MaxUrlLen}

\* the frontmatter line `url: ${content.url}`
UrlLine(u) == <<"url: ">> \o u

\* the page's markdown: a line of text, which may quote a url line
Bodies == {<<"text">>} \cup {<<"text">> \o UrlLine(u) : u \in Urls}

\* the file written for a page: frontmatter and markdown
fullMarkdown(u, body) == [url |-> u, lines |-> <<UrlLine(u), body>>]

RawFile == {fullMarkdown(u, b) : u \in Urls, b \in Bodies}

\* String.prototype.includes on one line
LineIncludes(line, needle) ==
    \E o \in 1..(Len(line) - Len(needle) + 1) :
        SubSeq(line, o, o + Len(needle) - 1) = needle

\* content.includes(`url: ${url}`)
ContentIncludes(content, url) ==
    \E i \in 1..Len(content.lines) : LineIncludes(content.lines[i], UrlLine(url))

\* the files of all sources in reading order: the first one that matches
RECURSIVE findContent(_, _)
findContent(files, url) ==
    IF files = <<>> THEN <<>>
    ELSE IF ContentIncludes(Head(files), url) THEN <<Head(files)>>
    ELSE findContent(Tail(files), url)

\* the handler's answer: the content found, or the error of the outer catch
get_doc(files, url) ==
    IF url = NoUrl THEN [isError |-> TRUE, text |-> <<>>]
    ELSE LET foundContent == findContent(files, url) IN
         IF foundContent = <<>> THEN [isError |-> TRUE, text |-> <<>>]
         ELSE [isError |-> FALSE, text |-> foundContent]

\* the crawler has written one file per page crawled; the file name is
\* derived from the page's url, so no two files have the same url
WriteRawFiles ==
    /\ gpc = "idle"
    /\ \E n \in 0..MaxFiles :
        \E fs \in [1..n -> RawFile] :
            /\ \A i, j \in 1..n : i # j => fs[i].url # fs[j].url
            /\ rawFiles' = fs
    /\ gpc' = "crawled"
    /\ UNCHANGED <<reqUrl, docAnswer, notDoc>>

\* case 'get_doc'
GetDoc ==
    /\ gpc = "crawled"
    /\ \E u \in Urls \cup {NoUrl} :
        /\ reqUrl' = u
        /\ docAnswer' = get_doc(rawFiles, u)
    /\ gpc' = "done"
    /\ UNCHANGED <<rawFiles, notDoc>>

InitDoc ==
    /\ variant \in {"chroma_ollama", "chroma_default"}
    /\ store = [c \in Colls |-> Absent]
    /\ faulty = {}
    /\ src = CollOrder[1]
    /\ SearchIdle
    /\ OpIdle
    /\ IndexIdle
    /\ EmbedIdle
    /\ CmdIdle
    /\ ChunkIdle
    /\ DocIdle
    /\ RepoIdle
    /\ MdIdle
    /\ UpdIdle
    /\ FileIdle

NextDoc == WriteRawFiles \/ GetDoc

SpecDoc == InitDoc /\ [][NextDoc]_vars

-----------------------------------------------------------------------------
(* generateRepoId.  A name is the sequence of its characters.               *)

MaxNameLen == 2

\* the characters of owner and repository names, and of branch names
NameChars == {"a", "A", "-"}
BranchChars == {"a", ".", "-"}

OwnerNames == UNION {[1..n -> NameChars] : n \in 1..MaxNameLen}
BranchNames == [1..1 -> BranchChars]

RepoSpecs == [owner : OwnerNames, repo : OwnerNames, branch : BranchNames]

\* String.prototype.toLowerCase on one character
LowerChar(c) == IF c = "A" THEN "a" ELSE c

\* one character through .replace(/[^a-z0-9-]/gi, '-')
ReplaceChar(c) == IF c \in {"a", "A", "-"} THEN c ELSE "-"

\* `${owner}-${repo}-${branch}`.replace(/[^a-z0-9-]/gi, '-').toLowerCase()
generateRepoId(owner, repo, branch) ==
    LET s == owner \o <<"-">> \o repo \o <<"-">> \o branch
    IN  [i \in 1..Len(s) |-> LowerChar(ReplaceChar(s[i]))]

\* the collection name indexRepo uses for a source
RepoIdOf(r) == generateRepoId(r.owner, r.repo, r.branch)

\* indexRepo of a first source
IndexFirstRepo ==
    /\ rpc = "idle"
    /\ \E r \in RepoSpecs : repoA' = r
    /\ rpc' = "one"
    /\ UNCHANGED <<repoB, notRepo>>

\* indexRepo of another source
IndexSecondRepo ==
    /\ rpc = "one"
    /\ \E r \in RepoSpecs : r # repoA /\ repoB' = r
    /\ rpc' = "two"
    /\ UNCHANGED <<repoA, notRepo>>

InitRepo ==
    /\ variant = "lancedb"
    /\ store = [c \in Colls |-> Absent]
    /\ faulty = {}
    /\ src = CollOrder[1]
    /\ SearchIdle
    /\ OpIdle
    /\ IndexIdle
    /\ EmbedIdle
    /\ CmdIdle
    /\ ChunkIdle
    /\ DocIdle
    /\ RepoIdle
    /\ MdIdle
    /\ UpdIdle
    /\ FileIdle

NextRepo == IndexFirstRepo \/ IndexSecondRepo

SpecRepo == InitRepo /\ [][NextRepo]_vars

-----------------------------------------------------------------------------
(* updateClaudeMd.  A text is a sequence of tokens: "\n" is the newline,    *)
(* "## " the two hashes and the space that open a second-level heading,     *)
(* "#" one more hash, "FEEDD Documentation" the title of the section, and   *)
(* the other tokens stand for text that contains none of these.             *)

MaxMdLines == 4
MaxListed == 1

\* FEEDD_SECTION_START and FEEDD_SECTION_END_MARKER
FEEDD_SECTION_START == <<"## ", "FEEDD Documentation">>
FEEDD_SECTION_END_MARKER == <<"\n", "## ">>

\* the lines CLAUDE.md may be made of: the section's heading, another
\* second-level heading, a third-level heading with the section's title, a
\* sentence that quotes the section's heading, plain text, a blank line
MdLines ==
    {FEEDD_SECTION_START, <<"## ", "Other">>, <<"#">> \o FEEDD_SECTION_START,
     <<"see ">> \o FEEDD_SECTION_START, <<"text">>, <<>>}

RECURSIVE JoinLines(_)
JoinLines(lines) ==
    IF lines = <<>> THEN <<>>
    ELSE IF Len(lines) = 1 THEN lines[1]
    ELSE lines[1] \o <<"\n">> \o JoinLines(Tail(lines))

MdFiles == {[exists |-> TRUE, text |-> JoinLines(ls)] :
                ls \in UNION {[1..n -> MdLines] : n \in 0..MaxMdLines}}
            \cup {NoFile}

\* String.prototype.indexOf, counted from 1; 0 when there is no occurrence
IndexOf(text, needle) ==
    LET at == {o \in 1..(Len(text) - Len(needle) + 1) :
                  SubSeq(text, o, o + Len(needle) - 1) = needle}
    IN  IF at = {} THEN 0 ELSE CHOOSE o \in at : \A q \in at : o <= q

\* String.prototype.substring(from) and substring(0, to), counted from 1
SubstringFrom(text, from) == SubSeq(text, from, Len(text))
SubstringTo(text, to) == SubSeq(text, 1, to - 1)

\* the lines of one source in the section
RECURSIVE SourceEntries(_)
SourceEntries(n) ==
    IF n = 0 THEN <<>>
    ELSE SourceEntries(n - 1) \o <<"- source", "\n", "  - chunks", "\n", "  - Status", "\n", "\n">>

\* generateFeeddSection
generateFeeddSection(n) ==
    FEEDD_SECTION_START \o <<"\n", "\n", "**Automatically use feedd**", "\n", "\n">>
        \o (IF n = 0 THEN <<"*No documentation sources indexed yet.*", "\n">>
            ELSE <<"#", "## ", "Available Sources", "\n", "\n", "Use these sources", "\n", "\n">>
                     \o SourceEntries(n))

\* the text updateClaudeMd writes
updateClaudeMd(file, n) ==
    LET feeddSection == generateFeeddSection(n) IN
    IF ~file.exists THEN feeddSection
    ELSE LET existingContent == file.text
             sectionStartIndex == IndexOf(existingContent, FEEDD_SECTION_START)
         IN  IF sectionStartIndex # 0
             THEN LET beforeSection == SubstringTo(existingContent, sectionStartIndex)
                      afterSectionStart ==
                          SubstringFrom(existingContent,
                                        sectionStartIndex + Len(FEEDD_SECTION_START))
                      nextSectionIndex == IndexOf(afterSectionStart, FEEDD_SECTION_END_MARKER)
                      afterSection ==
                          IF nextSectionIndex # 0
                          THEN SubstringFrom(afterSectionStart, nextSectionIndex)
                          ELSE <<>>
                  IN  beforeSection \o feeddSection \o afterSection
             ELSE existingContent \o <<"\n", "\n">> \o feeddSection

\* updateClaudeMd is called in a project directory
UpdateClaudeMd ==
    /\ mpc = "idle"
    /\ \E f \in MdFiles, n \in 0..MaxListed :
        /\ claudeMd' = f
        /\ nListed' = n
        /\ newMd' = [exists |-> TRUE, text |-> updateClaudeMd(f, n)]
    /\ mpc' = "done"
    /\ UNCHANGED notMd

InitMd ==
    /\ variant = "lancedb"
    /\ store = [c \in Colls |-> Absent]
    /\ faulty = {}
    /\ src = CollOrder[1]
    /\ SearchIdle
    /\ OpIdle
    /\ IndexIdle
    /\ EmbedIdle
    /\ CmdIdle
    /\ ChunkIdle
    /\ DocIdle
    /\ RepoIdle
    /\ MdIdle
    /\ UpdIdle
    /\ FileIdle

NextMd == UpdateClaudeMd

SpecMd == InitMd /\ [][NextMd]_vars

-----------------------------------------------------------------------------
(* updateCommand: the options --depth and --pages and the stored            *)
(* parameters.  An option is the number typed, or undefined when the        *)
(* option was not given.                                                     *)

MaxParam == 3

ParamValues == {Num(n) : n \in 1..MaxParam}
OptionValues == ParamValues \cup {Undefined}

\* finalOptions.depth ? parseInt(finalOptions.depth) : undefined
ParseOption(o) == IF o.defined THEN Num(o.n) ELSE Undefined

\* Object.assign(source, updates): every own property of updates is copied,
\* one whose value is undefined included
ObjectAssign(source, updates) ==
    [k \in DOMAIN source |-> IF k \in DOMAIN updates THEN updates[k] ELSE source[k]]

\* config.ts updateSource on the two parameters, then saveConfig / loadConfig:
\* JSON.stringify leaves out a property whose value is undefined
updateSourceParams(source, updates) == ObjectAssign(source, updates)

\* updateCommand up to the parameters' update: without any option the two
\* values are asked for, the stored ones being the defaults
UpdateSourceConfig ==
    /\ upc = "idle"
    /\ \E s \in [maxDepth : ParamValues, maxPages : ParamValues],
          o \in [depth : OptionValues, pages : OptionValues],
          answers \in [depth : ParamValues, pages : ParamValues] :
        LET isInteractive == ~o.depth.defined /\ ~o.pages.defined
            finalOptions == IF isInteractive THEN answers ELSE o
        IN  /\ ~isInteractive => answers = [depth |-> s.maxDepth, pages |-> s.maxPages]
            /\ stored' = s
            /\ options' = o
            /\ updated' = updateSourceParams(s, [maxDepth |-> ParseOption(finalOptions.depth),
                                                 maxPages |-> ParseOption(finalOptions.pages)])
    /\ upc' = "done"
    /\ UNCHANGED notUpd

InitUpd ==
    /\ variant = "chroma_default"
    /\ store = [c \in Colls |-> Absent]
    /\ faulty = {}
    /\ src = CollOrder[1]
    /\ SearchIdle
    /\ OpIdle
    /\ IndexIdle
    /\ EmbedIdle
    /\ CmdIdle
    /\ ChunkIdle
    /\ DocIdle
    /\ RepoIdle
    /\ MdIdle
    /\ UpdIdle
    /\ FileIdle

NextUpd == UpdateSourceConfig

SpecUpd == InitUpd /\ [][NextUpd]_vars

-----------------------------------------------------------------------------
(* get_doc(repo, branch, path) of the repository generation.  A path is the *)
(* sequence of its segments between the separators; the repo argument is    *)
(* given as the result of repo.split('/').                                    *)

MaxPathLen == 3

\* process.cwd()
Cwd == <<"app">>

\* the files on disk: two branches of one repository, and the content of a
\* file is identified with its place
FilesOnDisk ==
    { Cwd \o <<"data", "repos", "o", "r", "main", "a.md">>,
      Cwd \o <<"data", "repos", "o", "r", "dev", "a.md">> }

RepoSegments == {"o", "r", ".."}
BranchArgs == {"main", "dev", ".."}
PathSegments == {"a.md", "dev", ".."}

SeqsUpTo(S, n) == UNION {[1..k -> S] : k \in 0..n}

DocArgs ==
    [repo : SeqsUpTo(RepoSegments, 2) \ {<<>>},
     branch : BranchArgs,
     path : SeqsUpTo(PathSegments, MaxPathLen)]

\* path.normalize on an absolute path: '.' and empty segments are dropped and
\* '..' removes the segment before it
RECURSIVE NormalizeFrom(_, _)
NormalizeFrom(stack, segs) ==
    IF segs = <<>> THEN stack
    ELSE LET s == Head(segs)
             next == IF s \in {"", "."} THEN stack
                     ELSE IF s = ".."
                          THEN (IF stack = <<>> THEN <<>> ELSE SubSeq(stack, 1, Len(stack) - 1))
                          ELSE Append(stack, s)
         IN  NormalizeFrom(next, Tail(segs))

\* path.join(process.cwd(), ...parts)
pathJoin(parts) == NormalizeFrom(<<>>, parts)

\* path.join(process.cwd(), 'data', 'repos', owner, repoName, branch, filePath)
DocFullPath(a) ==
    pathJoin(Cwd \o <<"data", "repos", a.repo[1], a.repo[2], a.branch>> \o a.path)

\* the arguments the handler accepts: all three given, repo of two parts
ArgsAccepted(a) == a.path # <<>> /\ Len(a.repo) >= 2

\* fs.readFile answers with the content of a file that exists
get_doc_file(a) ==
    IF ~ArgsAccepted(a) THEN DocError
    ELSE IF DocFullPath(a) \in FilesOnDisk
         THEN [ok |-> TRUE, text |-> DocFullPath(a)]
         ELSE DocError

GetDocFile ==
    /\ tpc = "idle"
    /\ \E a \in DocArgs :
        /\ docArgs' = a
        /\ fullPath' = IF ArgsAccepted(a) THEN DocFullPath(a) ELSE <<>>
        /\ fileAnswer' = get_doc_file(a)
    /\ tpc' = "done"
    /\ UNCHANGED notFile

InitFile ==
    /\ variant = "lancedb"
    /\ store = [c \in Colls |-> Absent]
    /\ faulty = {}
    /\ src = CollOrder[1]
    /\ SearchIdle
    /\ OpIdle
    /\ IndexIdle
    /\ EmbedIdle
    /\ CmdIdle
    /\ ChunkIdle
    /\ DocIdle
    /\ RepoIdle
    /\ MdIdle
    /\ UpdIdle
    /\ FileIdle

NextFile == GetDocFile

SpecFile == InitFile /\ [][NextFile]_vars

-----------------------------------------------------------------------------
(* Embedding: OllamaEmbedder.embed (batches of 5 under Promise.all) and     *)
(* generateEmbeddings (one awaited request per text)                        *)

TextAlphabet == {"a", "b"}

\* data.embedding / response.embedding for the prompt t
Vec(t) == <<"embedding", t>>

\* what Promise.all hands back for the batch starting after index i: the
\* values by position in the batch, whatever the order of completion
BatchEmbeddingsByCompletion(ts, i, order) == [j \in 1..Len(order) |-> Vec(ts[order[j]])]
BatchEmbeddings(ts, i, order) == [j \in 1..Len(order) |-> Vec(ts[i + j])]

\* texts.slice(i, i + batchSize), as positions of texts
BatchRest(ts, i) == (i + 1)..Len(ts)
Batch(ts, i) == (i + 1)..Min(i + batchSize, Len(ts))

\* top of the for loop of embed: issue the next batch, or return
EmbedNextBatch ==
    /\ epc = "loop" /\ eMode = "batched"
    /\ IF ei < Len(texts)
       THEN /\ inflight' = Batch(texts, ei)
            /\ doneOrder' = <<>>
            /\ epc' = "await"
       ELSE /\ epc' = "done"
            /\ UNCHANGED <<inflight, doneOrder>>
    /\ UNCHANGED <<eMode, texts, ei, embeddings, reordered, notEmbed>>

\* one embedSingle of the batch resolves
EmbedSingleResolves ==
    /\ epc = "await"
    /\ \E p \in inflight :
        /\ inflight' = inflight \ {p}
        /\ doneOrder' = Append(doneOrder, p)
        /\ reordered' = (reordered \/ \E q \in inflight : q < p)
    /\ UNCHANGED <<epc, eMode, texts, ei, embeddings, notEmbed>>

\* one embedSingle of the batch rejects: Promise.all rejects, embed throws;
\* the other requests of the batch stay outstanding
EmbedSingleRejects ==
    /\ epc = "await"
    /\ \E p \in inflight :
        /\ epc' = "failed"
        /\ inflight' = inflight \ {p}
    /\ UNCHANGED <<eMode, texts, ei, doneOrder, embeddings, reordered, notEmbed>>

\* a request left outstanding by a rejected batch settles, unobserved
EmbedSingleSettlesLate ==
    /\ epc = "failed"
    /\ \E p \in inflight : inflight' = inflight \ {p}
    /\ UNCHANGED <<epc, eMode, texts, ei, doneOrder, embeddings, reordered, notEmbed>>

\* every request of the batch has resolved: push the batch, i += batchSize
EmbedBatchSettled ==
    /\ epc = "await" /\ inflight = {}
    /\ embeddings' = embeddings \o BatchEmbeddings(texts, ei, doneOrder)
    /\ ei' = ei + batchSize
    /\ epc' = "loop"
    /\ UNCHANGED <<eMode, texts, inflight, doneOrder, reordered, notEmbed>>

\* generateEmbeddings: one turn of its for loop
GenerateEmbeddingsNext ==
    /\ epc = "loop" /\ eMode = "serial"
    /\ IF ei < Len(texts)
       THEN \/ /\ embeddings' = Append(embeddings, Vec(texts[ei + 1]))
               /\ ei' = ei + 1
               /\ UNCHANGED epc
            \/ /\ epc' = "failed"
               /\ UNCHANGED <<embeddings, ei>>
       ELSE /\ epc' = "done"
            /\ UNCHANGED <<embeddings, ei>>
    /\ UNCHANGED <<eMode, texts, inflight, doneOrder, reordered, notEmbed>>

InitEmbed ==
    /\ variant = "lancedb"
    /\ store = [c \in Colls |-> Absent]
    /\ faulty = {}
    /\ src = CollOrder[1]
    /\ SearchIdle
    /\ OpIdle
    /\ IndexIdle
    /\ texts \in UNION {[1..n -> TextAlphabet] : n \in 0..MaxTexts}
    /\ eMode \in {"batched", "serial"}
    /\ epc = "loop" /\ ei = 0 /\ inflight = {} /\ doneOrder = <<>>
    /\ embeddings = <<>> /\ reordered = FALSE
    /\ CmdIdle
    /\ ChunkIdle
    /\ DocIdle
    /\ RepoIdle
    /\ MdIdle
    /\ UpdIdle
    /\ FileIdle

NextEmbed ==
    \/ EmbedNextBatch
    \/ EmbedSingleResolves
    \/ EmbedSingleRejects
    \/ EmbedSingleSettlesLate
    \/ EmbedBatchSettled
    \/ GenerateEmbeddingsNext

SpecEmbed == InitEmbed /\ [][NextEmbed]_vars

-----------------------------------------------------------------------------
(* Properties of the search surface *)

Range(s) == {s[i] : i \in 1..Len(s)}
SortedByDistance(s) == \A i \in 1..(Len(s) - 1) : s[i].dist <= s[i + 1].dist
NoRepeat(s) == \A i, j \in 1..Len(s) : i # j => s[i] # s[j]
PosIn(s, r) == CHOOSE p \in 1..Len(s) : s[p] = r
Aggregated == sSource = NoSource
AllRows == UNION {Range(store[c].rows) : c \in Colls}

\* C1: a search that answers returns at most `limit` results, in
\* non-decreasing distance order, with a source filter and without one.
C1_AtMostKSorted ==
    (spc = "done" /\ ~sErr) => (Len(output) <= sLimit /\ SortedByDistance(output))

\* C1 witness: an aggregated answer cut down to the limit from a longer,
\* unsorted concatenation.
C1_Witness ==
    /\ spc = "done" /\ ~sErr /\ Aggregated
    /\ Len(gathered) > sLimit /\ ~SortedByDistance(gathered)
    /\ Len(output) = sLimit

\* C2: when every collection answers, the aggregated search returns the
\* `limit` smallest-distance rows of the union of all collections (all of
\* them when there are fewer): as many as that, each one a stored row, none
\* twice, and no row left out is nearer than a row returned.
C2_GlobalKSmallest ==
    (spc = "done" /\ Aggregated /\ sFailed = {} /\ ~sErr) =>
        /\ Len(output) = Min(sLimit, Cardinality(AllRows))
        /\ Range(output) \subseteq AllRows
        /\ NoRepeat(output)
        /\ \A r \in AllRows \ Range(output) : \A i \in 1..Len(output) : output[i].dist <= r.dist

\* C2 witness: two collections answered, and a row of the second collection
\* displaced a row of the first from the answer.
C2_Witness ==
    /\ spc = "done" /\ Aggregated /\ sFailed = {} /\ ~sErr
    /\ Len(gathered) > sLimit
    /\ \E i \in 1..Len(output) : output[i].coll = CollOrder[2]
    /\ \E r \in AllRows \ Range(output) : r.coll = CollOrder[1]

\* C3: in an aggregated answer, results of equal distance stand in the order
\* in which they were gathered (collections in query order, rows of one
\* collection as the store returned them), and the answer is a prefix of the
\* sorted concatenation.
C3_StableTies ==
    (spc = "done" /\ ~sErr /\ (Aggregated \/ sMode = "cli")) =>
        /\ \A i, j \in 1..Len(output) :
              (i < j /\ output[i].dist = output[j].dist)
                  => PosIn(gathered, output[i]) < PosIn(gathered, output[j])
        /\ \A r \in Range(gathered) \ Range(output) : \A i \in 1..Len(output) :
              \/ output[i].dist < r.dist
              \/ (output[i].dist = r.dist /\ PosIn(gathered, output[i]) < PosIn(gathered, r))

\* C3 witness: two rows of equal distance from different collections are
\* both in the answer.
C3_Witness ==
    /\ spc = "done" /\ ~sErr /\ Aggregated /\ sFailed = {}
    /\ \E i, j \in 1..Len(output) :
          /\ i < j /\ output[i].dist = output[j].dist
          /\ output[i].coll # output[j].coll

\* the answers of the collections that did not fail, as the loop would push them
RECURSIVE AnswersOf(_, _)
AnswersOf(tables, failed) ==
    IF tables = <<>> THEN <<>>
    ELSE (IF Head(tables) \in failed THEN <<>>
          ELSE Nearest(store[Head(tables)].rows, sLimit)) \o AnswersOf(Tail(tables), failed)

\* C4: in an aggregated search, a collection whose query fails contributes
\* nothing and the search still answers with the merged, ranked results of
\* all the other collections, not with an error.
C4_FailureSwallowed ==
    (spc = "done" /\ Aggregated /\ sFailed # {}) =>
        /\ ~sErr
        /\ output = Slice(SortByDistance(AnswersOf(listTables(store), sFailed)), sLimit)

-----------------------------------------------------------------------------
(* Properties of the store adapters *)

\* C9: a query of a collection that does not exist, or of one that holds no
\* chunk, returns the empty list and raises nothing.
C9_MissingIsEmpty ==
    (/\ lastOp.op = "query" /\ lastOp.coll \notin faulty
     /\ (~store[lastOp.coll].exists \/ store[lastOp.coll].rows = <<>>))
        => (lastOp.ok /\ lastOp.rows = <<>>)

\* C10: deleting is idempotent: on a healthy store the deletion of a
\* collection succeeds whether or not the collection exists, leaves it
\* absent and every other collection as it was, and a second deletion of
\* the same collection succeeds and changes nothing.
C10_DeleteIdempotent ==
    (lastOp.op = "delete" /\ lastOp.coll \notin faulty) =>
        /\ lastOp.ok
        /\ ~store[lastOp.coll].exists
        /\ \A c \in Colls \ {lastOp.coll} : store[c] = lastOp.before[c]
        /\ (~lastOp.before[lastOp.coll].exists => store = lastOp.before)
        /\ \A e \in NotFoundMessages(variant) :
              LET again == Delete(variant, store, faulty, lastOp.coll, e)
              IN  again.ok /\ again.st = store

\* C10 witness: a collection that was already absent has been deleted again.
C10_Witness ==
    /\ lastOp.op = "delete" /\ lastOp.ok /\ lastOp.coll \notin faulty
    /\ ~lastOp.before[lastOp.coll].exists
    /\ \E c \in Colls : store[c].exists

\* C11: the upsert writes only when the chunk list and the vector list have
\* the same length and are not empty: a length mismatch raises an error, an
\* empty input returns silently, and in both cases the store is unchanged.
C11_UpsertGuarded ==
    (lastOp.op = "upsert") =>
        /\ (lastOp.nChunks # lastOp.nEmbeddings) => (~lastOp.ok /\ store = lastOp.before)
        /\ (lastOp.nChunks = 0 /\ lastOp.nEmbeddings = 0) => (lastOp.ok /\ store = lastOp.before)
        /\ (store # lastOp.before) => (lastOp.nChunks = lastOp.nEmbeddings /\ lastOp.nChunks > 0)

-----------------------------------------------------------------------------
(* Properties of ingestion *)

\* phases in which the run calls the store
StorePhases == {"delete", "create", "add"}

\* C5: a run that ends before its store-write phase leaves the store as it
\* found it, and the store differs from what the run found only once the
\* run's chunks and (where the pipeline computes them) all their vectors exist.
C5_OldCollectionKept ==
    /\ (pc \in {"failed", "crashed"} /\ failAt \notin StorePhases) => store = snapshot
    /\ (store # snapshot) =>
          (nChunks > 0 /\ (variant # "chroma_default" => nVec = nChunks))

\* C5 witness: a re-index of an indexed source threw while embedding, after
\* some vectors had been computed, and the old collection is still there.
C5_Witness ==
    /\ pc = "failed" /\ failAt = "embed"
    /\ nVec > 0 /\ nVec < nChunks
    /\ lastGood.run >= 1
    /\ store[src].exists /\ store[src].rows # <<>>
    /\ store = snapshot

\* C6: after a run returned, the collection holds one row per chunk of that
\* run and nothing else: no row of an earlier run, no chunk twice.
C6_ExactlyThisRun ==
    (pc = "done") =>
        LET rows == store[src].rows IN
        /\ store[src].exists
        /\ Len(rows) = nChunks
        /\ \A i \in 1..Len(rows) : rows[i].run = run /\ rows[i].coll = src
        /\ {rows[i].idx : i \in 1..Len(rows)} = 1..nChunks

\* C6 witness: a re-index returned for a source whose collection held the
\* rows of an earlier run.
C6_Witness ==
    /\ pc = "done" /\ run >= 2
    /\ snapshot[src].exists /\ snapshot[src].rows # <<>>
    /\ Len(snapshot[src].rows) # nChunks

\* a collection that holds exactly the chunks of one whole run
Usable(c) ==
    /\ store[c].exists
    /\ \/ (lastGood.run > 0 /\ store[c].rows = ChunkRows(c, lastGood.run, 1, lastGood.n))
       \/ (nChunks > 0 /\ store[c].rows = ChunkRows(c, run, 1, nChunks))

StoreStep == DeleteOld \/ CreateCollection \/ AddDocuments \/ AddChunks \/ AddChunksBatch

\* C7: a run cut short after the deletion of the old collection and before
\* the end of the upsert leaves the source without a whole collection, no
\* step touches the store until a run is started again, and a run that
\* returns leaves a whole collection.
C7_CutShortUntilRerun ==
    /\ CutShort => (~Usable(src) /\ ~ENABLED StoreStep)
    /\ (pc = "done") => Usable(src)

\* C7 witness: a run returned after the run before it was killed between
\* the deletion and the end of the upsert.
C7_Witness ==
    /\ pc = "done" /\ prevCut /\ Usable(src)

\* what a search of the source under ingestion, issued in this state with
\* limit k, is answered by the store
SearchOfSource(k) ==
    Query(variant, store, {}, src, k, CHOOSE e \in NotFoundMessages(variant) : TRUE).rows

\* C23: a search that runs while a source is re-indexed is answered, for that
\* source, with chunks of one run only: of the earlier run that wrote the
\* old collection, or no chunk, or of the run in progress.
C23_SearchSeesOneRun ==
    \A k \in 1..MaxLimit :
        LET rows == SearchOfSource(k) IN
        \/ rows = <<>>
        \/ \A i \in 1..Len(rows) : rows[i].run = run
        \/ \E old \in 1..(run - 1) : \A i \in 1..Len(rows) : rows[i].run = old

\* C23 witness: a re-index of an indexed source is between two batches of
\* its upsert, and a search finds chunks of the run in progress.
C23_Witness ==
    /\ pc = "add" /\ run >= 2
    /\ snapshot[src].exists /\ snapshot[src].rows # <<>>
    /\ written > 0 /\ written < nChunks
    /\ SearchOfSource(MaxLimit) # <<>>
    /\ \A i \in 1..Len(SearchOfSource(MaxLimit)) : SearchOfSource(MaxLimit)[i].run = run

\* C24: whatever runs came before and whatever the clock said when the ids
\* were made, the chunk ids inside one collection are pairwise distinct.
C24_ChunkIdsDistinct ==
    \A c \in Colls :
        LET rows == store[c].rows IN
        \A i, j \in 1..Len(rows), ti, tj \in Timestamps :
            i # j => ChunkId(variant, rows[i], ti) # ChunkId(variant, rows[j], tj)

\* C24 witness: a re-index has returned after writing its chunks in more
\* than one batch.
C24_Witness ==
    /\ pc = "done" /\ run >= 2 /\ variant = "chroma_default"
    /\ Len(store[src].rows) > BATCH_SIZE
    /\ snapshot[src].rows # <<>>

\* C28: a source whose status is 'ready' has a collection that holds every
\* chunk of a run that returned, and nothing else: the status becomes
\* 'ready' only after the run returned, and it has left 'ready' before a
\* later run deletes the collection.
C28_ReadyMeansWhole ==
    (status = "ready") =>
        /\ pc = "done"
        /\ lastGood.run = run /\ lastGood.n = nChunks /\ nChunks > 0
        /\ store[src].exists
        /\ store[src].rows = ChunkRows(src, run, 1, nChunks)

\* C28 witness: a source that was ready has been re-indexed and is ready
\* again, with the chunks of the later run.
C28_Witness ==
    /\ status = "ready" /\ run >= 2
    /\ snapshot[src].exists /\ snapshot[src].rows # <<>>
    /\ snapshot[src].rows # store[src].rows

\* phases that end a run for want of content
EmptyPhases == {"find", "chunk"}

\* C12: a run that finds no markdown file, or whose chunking yields no chunk,
\* ends with an error: the source is not marked ready and the store is as
\* the run found it; a run returns, a source is marked ready and a
\* collection is deleted or written only with at least one chunk.
C12_EmptyIsError ==
    /\ (pc = "failed" /\ failAt \in EmptyPhases) => (store = snapshot /\ status # "ready")
    /\ (pc = "done" \/ status = "ready" \/ store # snapshot) => nChunks > 0

\* C12 witness: the re-index of a source that was indexed and marked ready
\* ended at the chunking step, and the old collection is still in the store.
C12_Witness ==
    /\ pc = "failed" /\ failAt = "chunk" /\ nChunks = 0
    /\ lastGood.run >= 1
    /\ store[src].exists /\ store[src].rows = ChunkRows(src, lastGood.run, 1, lastGood.n)
    /\ status \in {"indexing", "error"}

\* the steps that come after the checks of the provider
AfterChecks == {"embed", "delete", "create", "add", "done"}

\* C13: when the provider is unreachable or the model is not present, the
\* run stops at its health check: it does not reach the embedding step or
\* any later one, no vector is computed, the store is as the run found it
\* and the source is not marked ready.
C13_UnavailableDetected ==
    (run > 0 /\ UsesProvider(variant) /\ provider # "up") =>
        /\ pc \notin AfterChecks
        /\ nVec = 0
        /\ store = snapshot
        /\ status # "ready"

-----------------------------------------------------------------------------
(* Properties of the commands *)

\* the command met a configuration error: add of an id that was registered,
\* or sync / update / remove of an id that was not
ConfigError ==
    \/ (cmd.name = "add" /\ cmd.wasRegistered)
    \/ (cmd.name \in {"sync", "update", "remove"} /\ ~cmd.wasRegistered)

\* C14: a command that meets a configuration error goes from its check
\* straight to the error exit: it attempts no crawl or clone, no embedding
\* request, no deletion of files or collections and no store write, and the
\* store is as the command found it.
C14_ConfigErrorStopsEarly ==
    ConfigError =>
        /\ cmd.pos \in {"check", "error"}
        /\ effects = {}
        /\ store = cmd.before

\* C14 witness: an add of an id that is registered and indexed has ended
\* with the error, the collection of that id still in the store.
C14_Witness ==
    /\ cmd.name = "add" /\ cmd.wasRegistered /\ cmd.pos = "error"
    /\ store[cmd.id].exists /\ store[cmd.id].rows # <<>>
    /\ \E c \in Colls : sources[c] = "none"

\* C15: after a remove command has completed successfully, neither the
\* source's record nor its collection exists, every collection in the store
\* belongs to a registered source, and a search of the removed source's
\* collection returns no chunk.
C15_RemoveCascades ==
    (cmd.name = "remove" /\ cmd.pos = "ok") =>
        /\ sources[cmd.id] = "none"
        /\ ~store[cmd.id].exists
        /\ \A c \in Colls : store[c].exists => sources[c] # "none"
        /\ \A k \in 1..MaxLimit, e \in NotFoundMessages(variant) :
              Query(variant, store, {}, cmd.id, k, e).rows = <<>>

-----------------------------------------------------------------------------
(* Properties of embedding *)

\* C8: embed returns as many vectors as texts, the i-th being the embedding
\* of the i-th text, whatever the order in which requests completed.
C8_OrderPreserved ==
    (epc = "done") =>
        /\ Len(embeddings) = Len(texts)
        /\ \A i \in 1..Len(texts) : embeddings[i] = Vec(texts[i])

\* C8 witness: more than one batch, differing texts, and a batch whose
\* requests completed out of order.
C8_Witness ==
    /\ epc = "done" /\ eMode = "batched" /\ reordered
    /\ Len(texts) > batchSize
    /\ \E i, j \in 1..Len(texts) : texts[i] # texts[j]

\* the batch a text belongs to, counted from 0
BatchOf(p) == (p - 1) \div batchSize

-----------------------------------------------------------------------------
(* Properties of the chunker *)

\* the file has been chunked by the header walk
WalkDone == kpc = "done" /\ ChunkerOf(variant) = "sections"

\* a document made of an H1 line followed by H2 sections: nothing but blank
\* lines between the H1 line and the first H2 line, no other header lines
H1ThenH2Sections(d) ==
    /\ Len(d) >= 1
    /\ d[1].kind = "h1"
    /\ \A i \in 2..Len(d) :
          /\ d[i].kind \in {"h2", "text"}
          /\ (d[i].kind = "text" /\ \A j \in 2..i : d[j].kind = "text") => d[i].len = 0

\* the lines under the header line at position p, up to the next header line,
\* trimmed
SectionEnd(d, p) ==
    IF \E q \in (p + 1)..Len(d) : d[q].kind # "text"
    THEN (CHOOSE q \in (p + 1)..Len(d) :
             /\ d[q].kind # "text"
             /\ \A r \in (p + 1)..(q - 1) : d[r].kind = "text") - 1
    ELSE Len(d)

SectionText(d, p) == Trim(d, [k \in 1..(SectionEnd(d, p) - p) |-> p + k])

\* the positions of the H2 lines, in order, and of those whose section has
\* the minimum content length
H2Lines(d) == SelectSeq([i \in 1..Len(d) |-> i], LAMBDA i : d[i].kind = "h2")

LongH2Lines(d) ==
    SelectSeq(H2Lines(d),
              LAMBDA i : JoinedLength(d, SectionText(d, i)) >= MinContentLength)

\* C16, as stated: a document made of an H1 and H2 sections yields one chunk
\* per H2 section, carrying the title of the H1 line and of the section's H2
\* line (two chunks, (Title, Usage) and (Title, Caveats), for the example).
C16_OneChunkPerH2Section ==
    (WalkDone /\ H1ThenH2Sections(doc)) =>
        /\ Len(fileChunks) = Len(H2Lines(doc))
        /\ \A k \in 1..Len(fileChunks) :
              /\ fileChunks[k].h1 = doc[1].title
              /\ fileChunks[k].h2 = doc[H2Lines(doc)[k]].title

\* C16, amended: a document made of an H1 and H2 sections yields one chunk
\* per H2 section whose trimmed content has at least 50 characters, in
\* document order and with that content, carrying the section's H2 and as h1
\* the frontmatter's h1 if there is one and the H1 line's title otherwise;
\* shorter sections yield no chunk, and the example document yields none.
C16_OneChunkPerLongH2Section ==
    (WalkDone /\ H1ThenH2Sections(doc)) =>
        /\ Len(fileChunks) = Len(LongH2Lines(doc))
        /\ \A k \in 1..Len(fileChunks) :
              LET p == LongH2Lines(doc)[k] IN
              /\ fileChunks[k].content = SectionText(doc, p)
              /\ fileChunks[k].h1 = (IF fmH1 # NoHeader THEN fmH1 ELSE doc[1].title)
              /\ fileChunks[k].h2 = doc[p].title
              /\ fileChunks[k].h3 = NoHeader
        /\ (doc = ExampleDoc) => fileChunks = <<>>

\* C16 witness: a document of an H1 and two H2 sections, one long enough and
\* one too short, has yielded one chunk.
C16_Witness ==
    /\ WalkDone /\ H1ThenH2Sections(doc)
    /\ Len(H2Lines(doc)) = 2
    /\ Len(fileChunks) = 1
    /\ \E p \in 1..Len(doc) :
          /\ doc[p].kind = "h2"
          /\ SectionText(doc, p) # <<>>
          /\ JoinedLength(doc, SectionText(doc, p)) < MinContentLength

\* C17: every chunk has at least the minimum content length.
C17_MinContentLength ==
    (kpc = "done") =>
        \A k \in 1..Len(fileChunks) : fileChunks[k].length >= MinContentLength

\* the last header line of one of the levels before position p, 0 if none
LastHeader(d, p, levels) ==
    IF \E i \in 1..(p - 1) : d[i].kind \in levels
    THEN CHOOSE i \in 1..(p - 1) :
            /\ d[i].kind \in levels
            /\ \A j \in (i + 1)..(p - 1) : d[j].kind \notin levels
    ELSE 0

\* the header of a level in force at position p: the most recent header line
\* of that level, unless a header line of a higher level came after it
Tracked(d, p, level, levels) ==
    LET i == LastHeader(d, p, levels) IN
    IF i = 0 THEN NoHeader
    ELSE IF d[i].kind = level THEN d[i].title ELSE NoHeader

\* a chunk's content is a run of consecutive lines none of which is a header
NoHeaderInContent(d, c) ==
    /\ \A k \in 1..Len(c.content) : d[c.content[k]].kind = "text"
    /\ \A k \in 1..(Len(c.content) - 1) : c.content[k + 1] = c.content[k] + 1

-----------------------------------------------------------------------------
(* Properties of get_doc *)

\* the crawled documents whose frontmatter url is the url given
DocsWithUrl(files, url) == {i \in 1..Len(files) : files[i].url = url}

\* C20: get_doc(url) returns the whole content of the crawled document whose
\* frontmatter url is the requested url, and an error when no crawled
\* document has that url.
C20_GetDocByUrl ==
    (gpc = "done" /\ reqUrl # NoUrl) =>
        IF DocsWithUrl(rawFiles, reqUrl) = {}
        THEN docAnswer.isError
        ELSE /\ ~docAnswer.isError
             /\ \E i \in DocsWithUrl(rawFiles, reqUrl) :
                   docAnswer.text = <<rawFiles[i]>>

-----------------------------------------------------------------------------
(* Properties of generateRepoId *)

\* C21: two different (owner, repo, branch) triples never get the same
\* source id, hence never the same collection name.
C21_RepoIdUnique ==
    (rpc = "two" /\ repoA # repoB) => RepoIdOf(repoA) # RepoIdOf(repoB)

-----------------------------------------------------------------------------
(* Properties of updateClaudeMd *)

\* the file's text, line by line
RECURSIVE SplitLines(_)
SplitLines(text) ==
    LET nl == {i \in 1..Len(text) : text[i] = "\n"} IN
    IF nl = {} THEN <<text>>
    ELSE LET i == CHOOSE j \in nl : \A k \in nl : j <= k
         IN  <<SubSeq(text, 1, i - 1)>> \o SplitLines(SubSeq(text, i + 1, Len(text)))

StartsWith(line, prefix) ==
    Len(line) >= Len(prefix) /\ SubSeq(line, 1, Len(prefix)) = prefix

\* the first line that is the section's heading, 0 if there is none, and
\* the first second-level heading after line h, 0 if there is none
FirstLine(lines, from, prefix) ==
    LET at == {i \in from..Len(lines) : StartsWith(lines[i], prefix)} IN
    IF at = {} THEN 0 ELSE CHOOSE i \in at : \A j \in at : i <= j

\* the text of the lines from a to b, each with its newline except the last
\* line of the file
LinesText(lines, a, b) ==
    JoinLines(SubSeq(lines, a, b)) \o (IF a <= b /\ b < Len(lines) THEN <<"\n">> ELSE <<>>)

\* C25: an absent file is created with just the section; a file without the
\* section's heading gets the section appended; in a file with the heading
\* the section is replaced, the text before the heading and the text from
\* the next second-level heading onward staying as they were.
C25_OnlyFeeddSectionChanges ==
    (mpc = "done") =>
        LET section == generateFeeddSection(nListed)
            lines == SplitLines(claudeMd.text)
            h == FirstLine(lines, 1, FEEDD_SECTION_START)
            nx == FirstLine(lines, h + 1, <<"## ">>)
        IN  IF ~claudeMd.exists THEN newMd.text = section
            ELSE IF h = 0 THEN newMd.text = claudeMd.text \o <<"\n", "\n">> \o section
            ELSE newMd.text =
                    LinesText(lines, 1, h - 1) \o section
                        \o (IF nx = 0 THEN <<>>
                            ELSE <<"\n">> \o JoinLines(SubSeq(lines, nx, Len(lines))))

-----------------------------------------------------------------------------
(* Properties of the commands on the records of the config *)

\* C26: an add that ends in the error of a duplicate id leaves the record
\* that has the id, its status included, as it was.
C26_DuplicateAddKeepsRecord ==
    [][(cmd.name = "add" /\ cmd.pos = "check" /\ cmd.wasRegistered /\ cmd'.pos = "error")
          => sources'[cmd.id] = sources[cmd.id]]_vars

\* C27: once an add, sync or update command that got as far as its ingestion
\* has terminated, the status of its source is 'ready' when the ingestion
\* succeeded and 'error' when it failed, never 'crawling' or 'indexing'.
C27_TerminatedStatus ==
    (cmd.name \in {"add", "sync", "update"} /\ cmd.pos \in {"ok", "error"} /\ ~ConfigError) =>
        sources[cmd.id] = (IF cmd.pos = "ok" THEN "ready" ELSE "error")

\* C29: an update given only one of --depth and --pages changes only that
\* parameter of the source; the other keeps the value it had.
C29_OtherParameterKept ==
    (upc = "done") =>
        /\ (options.depth.defined /\ ~options.pages.defined) =>
              (updated.maxDepth = options.depth /\ updated.maxPages = stored.maxPages)
        /\ (options.pages.defined /\ ~options.depth.defined) =>
              (updated.maxPages = options.pages /\ updated.maxDepth = stored.maxDepth)

\* the directory data/repos/<owner>/<repo>/<branch> of the arguments
SourceDirOf(a) == Cwd \o <<"data", "repos", a.repo[1], a.repo[2], a.branch>>

IsPathPrefix(d, p) == Len(d) < Len(p) /\ SubSeq(p, 1, Len(d)) = d

\* C30: whatever the arguments, a get_doc(repo, branch, path) that returns a
\* content returns the content of a file inside data/repos/<owner>/<repo>/<branch>/.
C30_ReadsInsideSourceDir ==
    (tpc = "done" /\ fileAnswer.ok) => IsPathPrefix(SourceDirOf(docArgs), fileAnswer.text)

====
